---- MODULE Spec2Model ----
(***************************************************************************)
(* Model of the simulation driver (model::run, model::reset,               *)
(* model::merge_events), the communicator (exchange, make_event_queues,    *)
(* min_delay) and the multi-rank spike gather.                             *)
(*                                                                         *)
(* Conventions.                                                            *)
(*  - time_type values are integers counted in ticks. Connection delays    *)
(*    are even tick counts, so min_delay/2 is exact as it is for the       *)
(*    floating point division by two of the source.                        *)
(*  - containers are sequences (1-based). Identifiers that are values of   *)
(*    the program (gid, lid, rank, epoch id) keep their 0-based value; a   *)
(*    group or lane with index i in the source is element i+1 here.        *)
(*  - a cell_member_type is a pair <<gid, index>>.                         *)
(*  - all ranks execute run() in lock step: the collectives of the         *)
(*    exchange synchronise them once per epoch.                            *)
(***************************************************************************)
EXTENDS Integers, Sequences, FiniteSets, Bags, TLC

\* ------------------------------------------------------------------ bounds
MaxT == 3
MaxRuns == 2
MaxConns == 2
MaxCells == 4
MaxDomains == 2
MaxJunctions == 2
MaxGroupSize == 3
MaxBlockCells == 22
MaxBlockDomains == 22
MaxTiles == 3
MaxTileCells == 2
MaxGathered == 2
MaxGatherRanks == 2
MaxReduced == 2
MaxSamplerGroups == 2
MaxSamplerCalls == 4
MaxLifCells == 2
MaxLifCalls == 3
MaxLane == 3
MaxThreads == 2
MaxTasks == 3
MaxGenerated == 3
MaxGeneratorCalls == 3
MaxSwcId == 3
MaxRecords == 3
MaxQueueConns == 2
MaxQueueSpikes == 3
MaxTableConns == 3

\* std::numeric_limits<time_type>::max(), the local minimum delay of a rank
\* without connections.
TimeMax == 1000

\* std::numeric_limits<double>::digits, the significant bits of a double.
DoubleDigits == 53

\* --------------------------------------------------------- generic helpers
Min2(a, b) == IF a < b THEN a ELSE b

RECURSIVE SumSeq(_)
SumSeq(s) == IF s = <<>> THEN 0 ELSE Head(s) + SumSeq(Tail(s))

RECURSIVE Concat(_)
Concat(ss) == IF ss = <<>> THEN <<>> ELSE Head(ss) \o Concat(Tail(ss))

\* algorithms::make_index: exclusive prefix sums, one element longer.
RECURSIVE make_index(_)
make_index(counts) ==
    IF counts = <<>> THEN <<0>>
    ELSE LET front == SubSeq(counts, 1, Len(counts) - 1)
             idx   == make_index(front)
         IN  Append(idx, idx[Len(idx)] + counts[Len(counts)])

\* cell_member_type ordering: lexicographic on (gid, index).
MemberLess(a, b) == a[1] < b[1] \/ (a[1] = b[1] /\ a[2] < b[2])

\* The multiset of the elements of a sequence.
BagOf(s) == [x \in {s[i] : i \in DOMAIN s} |-> Cardinality({i \in DOMAIN s : s[i] = x})]

Range(s) == {s[i] : i \in DOMAIN s}

\* std::sort by a projection, for the short ranges of this model: the
\* insertion sort the library falls back to below 16 elements, which keeps
\* elements that compare equal in their input order. key maps each element
\* to the pair the comparison looks at (a cell_member_type, or <<time, 0>>).
RECURSIVE InsertInto(_, _, _)
InsertInto(sorted, x, key) ==
    IF sorted = <<>> THEN <<x>>
    ELSE IF MemberLess(key[x], key[sorted[Len(sorted)]])
         THEN Append(InsertInto(SubSeq(sorted, 1, Len(sorted) - 1), x, key), sorted[Len(sorted)])
         ELSE Append(sorted, x)

RECURSIVE SortBy(_, _)
SortBy(s, key) ==
    IF s = <<>> THEN <<>>
    ELSE InsertInto(SortBy(SubSeq(s, 1, Len(s) - 1), key), s[Len(s)], key)

\* std::lower_bound / std::upper_bound on s[from..]: the partition point of
\* before, i.e. the first position at or after from whose element does not
\* satisfy before (Len(s)+1 if there is none). before maps elements to
\* BOOLEAN.
RECURSIVE PartitionPoint(_, _, _)
PartitionPoint(s, from, before) ==
    IF from > Len(s) THEN from
    ELSE IF before[s[from]] THEN PartitionPoint(s, from + 1, before)
         ELSE from

\* The elements of a set of numbers in ascending order.
RECURSIVE SortedSeq(_)
SortedSeq(S) ==
    IF S = {} THEN <<>>
    ELSE LET m == CHOOSE x \in S : \A y \in S : x <= y
         IN  <<m>> \o SortedSeq(S \ {m})

\* ------------------------------------------------------------------ recipe
Gids == {0, 1, 2}
num_cells == Cardinality(Gids)

\* Candidate connections of the recipes: source cell, destination endpoint
\* (gid, lid), weight, delay. A recipe lists at most MaxConns of them, in
\* this order.
ConnPool == <<
    [source |-> <<0, 0>>, dest |-> <<1, 1>>, weight |-> 2, delay |-> 2],
    [source |-> <<0, 0>>, dest |-> <<1, 0>>, weight |-> 2, delay |-> 2],
    [source |-> <<1, 0>>, dest |-> <<2, 0>>, weight |-> 2, delay |-> 2],
    [source |-> <<2, 0>>, dest |-> <<0, 0>>, weight |-> 2, delay |-> 4] >>

\* External stimulus of the recipes: the (gid, time) at which a cell fires
\* without input.
Stimulus == { <<0, 0>>, <<1, 0>>, <<2, 1>> }

RECURSIVE PickSeq(_, _)
PickSeq(pool, chosen) ==
    IF pool = <<>> THEN <<>>
    ELSE LET rest == PickSeq(SubSeq(pool, 1, Len(pool) - 1), chosen)
         IN  IF Len(pool) \in chosen THEN Append(rest, pool[Len(pool)]) ELSE rest

Recipes ==
    { [conns |-> PickSeq(ConnPool, c), stim |-> Stimulus] :
        c \in {x \in SUBSET (1..Len(ConnPool)) : Cardinality(x) <= MaxConns} }

\* recipe::connections_on(gid): the incoming connections of gid.
connections_on(rec, gid) == SelectSeq(rec.conns, LAMBDA c : c.dest[1] = gid)

\* ----------------------------------------------------- domain decomposition
\* The values of cell_kind.
Kinds == {"cable1d_neuron", "lif_neuron"}

\* recipe::gap_junctions_on(gid): the peers of gid, by ascending gid. The
\* recipe holds the undirected graph as a set of two-element sets, so that
\* what the two endpoints of a junction see agrees.
gap_junctions_on(rec, gid) ==
    SortedSeq({p \in 0..(rec.num_cells - 1) : p # gid /\ {gid, p} \in rec.gj})

\* recipe::get_cell_kind(gid)
get_cell_kind(rec, gid) == rec.kind[gid]

\* The block rule: the number of cells of domain dom.
dom_size(num_global_cells, num_domains, dom) ==
    LET B == num_global_cells \div num_domains
        R == num_global_cells - num_domains * B
    IN  B + (IF dom < R THEN 1 ELSE 0)

\* make_partition(gid_divisions, sizes): the divisions of the blocks.
gid_divisions(num_global_cells, num_domains) ==
    make_index([d \in 1..num_domains |-> dom_size(num_global_cells, num_domains, d - 1)])

\* The while loop of the connected components algorithm: q is the queue,
\* visited the keys of the visited map, cg the component so far.
RECURSIVE bfs(_, _, _, _)
bfs(rec, q, visited, cg) ==
    IF q = <<>> THEN [cg |-> cg, visited |-> visited]
    ELSE LET element == Head(q)
             conns   == gap_junctions_on(rec, element)
             fresh   == SelectSeq(conns, LAMBDA c : c \notin visited)
         IN  bfs(rec, Tail(q) \o fresh, visited \cup Range(fresh), Append(cg, element))

\* The for loop over the gids gid..last-1 of the block of this domain: a
\* cell with gap junctions that was not visited starts a new super cell, a
\* cell without gap junctions is a regular cell.
RECURSIVE connected_components(_, _, _, _)
connected_components(rec, gid, last, acc) ==
    IF gid >= last THEN acc
    ELSE LET found == bfs(rec, <<gid>>, acc.visited \cup {gid}, <<>>)
             next  ==
                 IF gap_junctions_on(rec, gid) # <<>>
                 THEN IF gid \notin acc.visited
                      THEN [super_cells |-> Append(acc.super_cells, found.cg),
                            reg_cells   |-> acc.reg_cells,
                            visited     |-> found.visited]
                      ELSE acc
                 ELSE [acc EXCEPT !.reg_cells = Append(@, gid)]
         IN  connected_components(rec, gid + 1, last, next)

\* Every super cell sorted, none removed.
sorted_super_cells(super_cells, first) ==
    [i \in 1..Len(super_cells) |-> SortedSeq(Range(super_cells[i]))]

\* The erase / remove_if: every super cell is sorted, and those whose first
\* element lies before the block of this domain are removed.
owned_super_cells(super_cells, first) ==
    SelectSeq([i \in 1..Len(super_cells) |-> SortedSeq(Range(super_cells[i]))],
              LAMBDA cg : ~(cg[1] < first))

\* No test of the kinds of a super cell.
kinds_not_compared(rec, cg) == FALSE

\* The test in the loop over the super cells that throws
\* arbor_internal_error.
different_kinds(rec, cg) ==
    \E i \in 1..Len(cg) : get_cell_kind(rec, cg[i]) # get_cell_kind(rec, cg[1])

\* The regular cells and the super cells whatever their kind.
kind_list_of_all(rec, reg_cells, super_cells, k) ==
    [j \in 1..Len(reg_cells) |-> [id |-> reg_cells[j], is_super_cell |-> FALSE]]
    \o [j \in 1..Len(super_cells) |-> [id |-> j - 1, is_super_cell |-> TRUE]]

\* kind_lists[k]: the regular cells of kind k, then the indices of the super
\* cells of kind k.
kind_list(rec, reg_cells, super_cells, k) ==
    LET reg == SelectSeq(reg_cells, LAMBDA gid : get_cell_kind(rec, gid) = k)
        sup == SelectSeq([i \in 1..Len(super_cells) |-> i - 1],
                         LAMBDA i : get_cell_kind(rec, super_cells[i + 1][1]) = k)
    IN  [j \in 1..Len(reg) |-> [id |-> reg[j], is_super_cell |-> FALSE]]
        \o [j \in 1..Len(sup) |-> [id |-> sup[j], is_super_cell |-> TRUE]]

\* cell_kind_supported(k, backend_kind::gpu, ctx)
has_gpu_backend(k, gpu_avail) == gpu_avail /\ k = "cable1d_neuron"

\* The kinds present on this domain, those with a GPU implementation first.
\* map_order is the order in which the unordered map of the kind lists
\* enumerates its keys.
kinds_present(rec, local, map_order, gpu_avail) ==
    LET present == SelectSeq(map_order,
                       LAMBDA k : \E i \in 1..Len(local) : get_cell_kind(rec, local[i]) = k)
    IN  SelectSeq(present, LAMBDA k : has_gpu_backend(k, gpu_avail))
        \o SelectSeq(present, LAMBDA k : ~has_gpu_backend(k, gpu_avail))

\* The loop over kind_lists[k] with a super cell cut where the group is full.
RECURSIVE split_groups(_, _, _, _, _)
split_groups(cells, super_cells, group_size, group_elements, groups) ==
    IF cells = <<>>
    THEN IF group_elements # <<>> THEN Append(groups, group_elements) ELSE groups
    ELSE LET cell  == Head(cells)
             added == IF cell.is_super_cell THEN super_cells[cell.id + 1] ELSE <<cell.id>>
             all   == group_elements \o added
         IN  IF Len(all) >= group_size
             THEN split_groups(Tail(cells), super_cells, group_size,
                               SubSeq(all, group_size + 1, Len(all)),
                               Append(groups, SubSeq(all, 1, group_size)))
             ELSE split_groups(Tail(cells), super_cells, group_size, all, groups)

\* The loop over kind_lists[k] without the push ahead of a super cell that
\* does not fit: group_elements is pushed as a group only once it holds
\* group_size cells, and at the end.
RECURSIVE push_when_full(_, _, _, _, _)
push_when_full(cells, super_cells, group_size, group_elements, groups) ==
    IF cells = <<>>
    THEN IF group_elements # <<>> THEN Append(groups, group_elements) ELSE groups
    ELSE LET cell  == Head(cells)
             elems == IF cell.is_super_cell
                      THEN group_elements \o super_cells[cell.id + 1]
                      ELSE Append(group_elements, cell.id)
         IN  IF Len(elems) >= group_size
             THEN push_when_full(Tail(cells), super_cells, group_size, <<>>, Append(groups, elems))
             ELSE push_when_full(Tail(cells), super_cells, group_size, elems, groups)

\* The loop over kind_lists[k]: a regular cell is appended to
\* group_elements; a super cell is appended whole, after group_elements was
\* pushed as a group if the super cell does not fit; group_elements is
\* pushed as a group as soon as it holds group_size cells, and once more at
\* the end if it is not empty.
RECURSIVE make_groups(_, _, _, _, _)
make_groups(cells, super_cells, group_size, group_elements, groups) ==
    IF cells = <<>>
    THEN IF group_elements # <<>> THEN Append(groups, group_elements) ELSE groups
    ELSE LET cell    == Head(cells)
             sc      == super_cells[cell.id + 1]
             early   == /\ cell.is_super_cell
                        /\ Len(group_elements) + Len(sc) > group_size
                        /\ group_elements # <<>>
             groups1 == IF early THEN Append(groups, group_elements) ELSE groups
             elems1  == IF early THEN <<>> ELSE group_elements
             elems2  == IF cell.is_super_cell THEN elems1 \o sc ELSE Append(elems1, cell.id)
         IN  IF Len(elems2) >= group_size
             THEN make_groups(Tail(cells), super_cells, group_size, <<>>, Append(groups1, elems2))
             ELSE make_groups(Tail(cells), super_cells, group_size, elems2, groups1)

\* The group descriptions of kind k.
groups_of_kind(rec, reg_cells, super_cells, hint, gpu_avail, k) ==
    LET on_gpu     == hint.prefer_gpu /\ gpu_avail /\ has_gpu_backend(k, gpu_avail)
        group_size == IF on_gpu THEN hint.gpu_group_size ELSE hint.cpu_group_size
        gids       == make_groups(kind_list(rec, reg_cells, super_cells, k), super_cells,
                                  group_size, <<>>, <<>>)
    IN  [g \in 1..Len(gids) |->
            [kind |-> k, gids |-> gids[g], backend |-> IF on_gpu THEN "gpu" ELSE "multicore"]]

\* partition_load_balance on domain domain_id up to the gather of the gids:
\* the error, or the local part of the decomposition. The same hint is
\* given for every kind.
local_load_balance(rec, hint, gpu_avail, map_order, num_domains, domain_id) ==
    LET gid_part    == gid_divisions(rec.num_cells, num_domains)
        first       == gid_part[domain_id + 1]
        last        == gid_part[domain_id + 2]
        found       == connected_components(rec, first, last,
                           [super_cells |-> <<>>, reg_cells |-> <<>>, visited |-> {}])
        super_cells == owned_super_cells(found.super_cells, first)
        local_gids  == found.reg_cells \o Concat(super_cells)
        kinds       == kinds_present(rec, local_gids, map_order, gpu_avail)
    IN  IF \E i \in 1..Len(super_cells) : different_kinds(rec, super_cells[i])
        THEN [error |-> "arbor_internal_error"]
        ELSE [error            |-> "",
              num_domains      |-> num_domains,
              domain_id        |-> domain_id,
              num_local_cells  |-> Len(local_gids),
              num_global_cells |-> rec.num_cells,
              groups           |-> Concat([j \in 1..Len(kinds) |->
                                      groups_of_kind(rec, found.reg_cells, super_cells,
                                                     hint, gpu_avail, kinds[j])]),
              local_gids       |-> SortedSeq(Range(local_gids))]

\* The recipe of the driver as the load balancer sees it: cells of one kind
\* without gap junctions.
cells_only ==
    [num_cells |-> num_cells, kind |-> [g \in Gids |-> "cable1d_neuron"], gj |-> {}]

\* The decomposition the driver is constructed with: the groups of all
\* ranks, for a group size hint.
partition_load_balance(num_domains, group_size) ==
    LET hint == [cpu_group_size |-> group_size, gpu_group_size |-> group_size, prefer_gpu |-> FALSE]
        local(r) == local_load_balance(cells_only, hint, FALSE, <<"cable1d_neuron">>, num_domains, r)
    IN  [num_domains |-> num_domains,
         groups      |-> [r \in 0..(num_domains - 1) |->
                             [g \in 1..Len(local(r).groups) |-> local(r).groups[g].gids]]]

Decomps == { partition_load_balance(nd, gs) : nd \in {1, 2}, gs \in {1, 2} }

RanksOf(dec) == 0..(dec.num_domains - 1)

local_gids(dec, r) == Concat(dec.groups[r])

\* partition_gid_domain: the rank whose gathered gid list holds gid.
gid_domain(dec, gid) == CHOOSE r \in RanksOf(dec) : gid \in Range(local_gids(dec, r))

\* communicator::num_local_cells and communicator::group_queue_range: the
\* lanes of group i are those of its cells, the local cells being numbered
\* group by group.
num_local_cells(dec, r) == Len(local_gids(dec, r))

group_queue_range(dec, r, i) ==
    LET divs == make_index([g \in 1..Len(dec.groups[r]) |-> Len(dec.groups[r][g])])
    IN  (divs[i] + 1)..divs[i + 1]

\* ------------------------------------------------------------ communicator
\* communicator::communicator: the incoming connections of the local cells,
\* enumerated group by group and cell by cell, each tagged with the group of
\* its destination cell, scattered (stably) into the partition of the domain
\* of its source, each partition then sorted by source.
local_connections(rec, dec, r) ==
    LET grp == dec.groups[r]
        of_cell(i, gid) ==
            LET cs == connections_on(rec, gid)
            IN  [k \in 1..Len(cs) |->
                    [source |-> cs[k].source, destination |-> cs[k].dest,
                     weight |-> cs[k].weight, delay |-> cs[k].delay, group_index |-> i]]
        of_group(i) == Concat([k \in 1..Len(grp[i]) |-> of_cell(i, grp[i][k])])
    IN  Concat([i \in 1..Len(grp) |-> of_group(i)])

\* The connections in the order they were placed in.
connections_as_placed(cs) == cs

sort_connections(cs) == SortBy(cs, [c \in Range(cs) |-> c.source])

make_connections(rec, dec, r) ==
    LET all      == local_connections(rec, dec, r)
        from(d)  == SelectSeq(all, LAMBDA c : gid_domain(dec, c.source[1]) = d)
        parts    == [d \in 1..dec.num_domains |-> sort_connections(from(d - 1))]
    IN  [connections     |-> Concat(parts),
         connection_part |-> make_index([d \in 1..dec.num_domains |-> Len(parts[d])])]

\* communicator::min_delay: the local minimum, then comms_.min over the ranks.
RECURSIVE local_min_delay(_)
local_min_delay(cons) ==
    IF cons = <<>> THEN TimeMax
    ELSE Min2(local_min_delay(Tail(cons)), Head(cons).delay)

\* A reduction that returns the value of the first rank.
first_rank_value(vals) == vals[1]

\* comms_.min: MPI_MIN over the values of the ranks.
comms_min(vals) == CHOOSE m \in Range(vals) : \A v \in Range(vals) : m <= v

min_delay(cons, dec) ==
    comms_min([d \in 1..dec.num_domains |-> local_min_delay(cons[d - 1].connections)])

\* mpi::gather_all_with_partition on rank r. send[i] is the buffer rank i
\* hands in. Every rank passes its own element count as send count; the
\* counts of all ranks come from gather_all, the displacements from
\* make_index. MPI_Allgatherv stores the first counts[i] elements sent by
\* rank i at displs[i] of the receive buffer. (The scaling of counts and
\* displacements by the element size cancels and is left out.)
gather_all_with_partition(send, dec) ==
    LET counts == [d \in 1..dec.num_domains |-> Len(send[d - 1])]
        displs == make_index(counts)
        owner(p) == CHOOSE d \in 1..dec.num_domains : displs[d] < p /\ p <= displs[d] + counts[d]
    IN  [values    |-> [p \in 1..displs[Len(displs)] |-> send[owner(p) - 1][p - displs[owner(p)]]],
         partition |-> displs]

\* communicator::exchange, the part before the gather: the local spikes
\* sorted by source.
spikes_as_inserted(local) == local

sort_spikes(local) == SortBy(local, [s \in Range(local) |-> s.source])

\* connection::make_event
make_event(c, s) == [target |-> c.destination, time |-> s.time + c.delay, weight |-> c.weight]

RECURSIVE push_all(_, _, _)
push_all(queues, g, evs) ==
    IF evs = <<>> THEN queues
    ELSE push_all([queues EXCEPT ![g] = Append(@, Head(evs))], g, Tail(evs))

\* std::equal_range(from, end, src) on spikes resp. connections sorted by
\* source: <<first, last>> with the matches at first..last-1.
spike_range(spks, from, src) ==
    << PartitionPoint(spks, from, [s \in Range(spks) |-> MemberLess(s.source, src)]),
       PartitionPoint(spks, from, [s \in Range(spks) |-> ~MemberLess(src, s.source)]) >>

\* The first match only.
first_connection(cons, from, src) ==
    LET first == PartitionPoint(cons, from, [c \in Range(cons) |-> MemberLess(c.source, src)])
    IN  << first, IF first <= Len(cons) /\ cons[first].source = src THEN first + 1 ELSE first >>

connection_range(cons, from, src) ==
    << PartitionPoint(cons, from, [c \in Range(cons) |-> MemberLess(c.source, src)]),
       PartitionPoint(cons, from, [c \in Range(cons) |-> ~MemberLess(src, c.source)]) >>

\* make_event_queues, branch cons.size() < spks.size(): walk the connections.
RECURSIVE walk_connections(_, _, _, _, _)
walk_connections(queues, cons, spks, cn, sp) ==
    IF cn > Len(cons) \/ sp > Len(spks) THEN queues
    ELSE LET sources == spike_range(spks, sp, cons[cn].source)
             evs     == [k \in 1..(sources[2] - sources[1]) |-> make_event(cons[cn], spks[sources[1] + k - 1])]
         IN  walk_connections(push_all(queues, cons[cn].group_index, evs), cons, spks, cn + 1, sources[1])

\* Appends evs[k], made by connection cons[first+k-1], to the queue of the
\* group of that connection.
RECURSIVE push_each(_, _, _, _)
push_each(queues, evs, cons, first) ==
    IF evs = <<>> THEN queues
    ELSE push_each([queues EXCEPT ![cons[first].group_index] = Append(@, Head(evs))],
                   Tail(evs), cons, first + 1)

\* make_event_queues, the other branch: walk the spikes.
RECURSIVE walk_spikes(_, _, _, _, _)
walk_spikes(queues, cons, spks, cn, sp) ==
    IF cn > Len(cons) \/ sp > Len(spks) THEN queues
    ELSE LET targets == connection_range(cons, cn, spks[sp].source)
             evs     == [k \in 1..(targets[2] - targets[1]) |-> make_event(cons[targets[1] + k - 1], spks[sp])]
         IN  walk_spikes(push_each(queues, evs, cons, targets[1]), cons, spks, targets[1], sp + 1)

RECURSIVE domain_queues(_, _, _, _, _)
domain_queues(queues, com, gs, dom, num_domains) ==
    IF dom > num_domains THEN queues
    ELSE LET cons == SubSeq(com.connections, com.connection_part[dom] + 1, com.connection_part[dom + 1])
             spks == SubSeq(gs.values, gs.partition[dom] + 1, gs.partition[dom + 1])
             q    == IF Len(cons) < Len(spks)
                     THEN walk_connections(queues, cons, spks, 1, 1)
                     ELSE walk_spikes(queues, cons, spks, 1, 1)
         IN  domain_queues(q, com, gs, dom + 1, num_domains)

make_event_queues(com, gs, num_local_groups, num_domains) ==
    domain_queues([g \in 1..num_local_groups |-> <<>>], com, gs, 1, num_domains)

\* ------------------------------------------------------------ event lanes
\* util::sort_by(events, event_time)
sort_events(events) == SortBy(events, [e \in Range(events) |-> <<e.time, 0>>])

\* std::merge with the comparator l.time < r.time: an element of the second
\* range goes first only if its time is smaller.
RECURSIVE std_merge(_, _)
std_merge(a, b) ==
    IF a = <<>> THEN b
    ELSE IF b = <<>> THEN a
    ELSE IF Head(b).time < Head(a).time
         THEN <<Head(b)>> \o std_merge(a, Tail(b))
         ELSE <<Head(a)>> \o std_merge(Tail(a), b)

\* A merge that takes nothing of lc.
merge_new_events(events, lc, ep_tfinal) == sort_events(events)

\* A merge that takes all of lc.
merge_whole_lane(events, lc, ep_tfinal) == std_merge(sort_events(events), lc)

\* model::merge_events: the new content of lf, given the events of the
\* queue, the lane lc of the current bank and epoch_.tfinal.
merge_events(events, lc, ep_tfinal) ==
    LET pos == PartitionPoint(lc, 1, [e \in Range(lc) |-> e.time < ep_tfinal])
    IN  std_merge(sort_events(events), SubSeq(lc, pos, Len(lc)))

\* One bank for all epochs.
first_bank(epoch_id) == 1

\* model::event_lanes(epoch_id): the index of the bank (1 or 2 for the
\* source's 0 or 1).
bank(epoch_id) == (epoch_id % 2) + 1

\* The loop of the exchange task over the groups: lane i of the next bank
\* receives the merge of queue i with lane i of the current bank.
merge_all(lanes, queues, ep) ==
    LET lc == lanes[bank(ep.id)]
        lf == lanes[bank(ep.id + 1)]
        nf == [l \in 1..Len(lf) |->
                 IF l <= Len(queues) THEN merge_events(queues[l], lc[l], ep.tfinal) ELSE lf[l]]
    IN  [lanes EXCEPT ![bank(ep.id + 1)] = nf]

\* ------------------------------------------------------------- spike store
\* util::double_buffer of spike stores: get() is the buffer at index,
\* other() the other one, exchange() flips index.
current_spikes(db) == db.buffers[db.index + 1]
previous_spikes(db) == db.buffers[2 - db.index]
db_exchange(db) == [db EXCEPT !.index = 1 - @]
clear_current(db) == [db EXCEPT !.buffers[db.index + 1] = <<>>]
insert_previous(db, spikes) == [db EXCEPT !.buffers[2 - db.index] = @ \o spikes]
insert_current(db, spikes) == [db EXCEPT !.buffers[db.index + 1] = @ \o spikes]
clear_both(db) == [db EXCEPT !.buffers = <<(<<>>), (<<>>)>>]

\* -------------------------------------------------------------- cell group
\* The abstract stepper: a deterministic group whose cells fire at their
\* stimulus times and at the time of every event above threshold addressed
\* to them. A group integrates from the time it has reached to
\* epoch.tfinal; an event that is already overdue is applied at the start of
\* the interval; events addressed to cells outside the group are ignored.
Max2(a, b) == IF a > b THEN a ELSE b

cell_spike_times(rec, gid, from, to, queues) ==
    { st[2] : st \in {x \in rec.stim : x[1] = gid /\ from <= x[2] /\ x[2] < to} }
    \cup { Max2(e.time, from) :
            e \in {x \in Range(Concat(queues)) : x.target[1] = gid /\ x.time < to /\ x.weight > 1} }

group_advance(rec, gids, from, to, queues) ==
    Concat([k \in 1..Len(gids) |->
              LET ts == SortedSeq(cell_spike_times(rec, gids[k], from, to, queues))
              IN  [j \in 1..Len(ts) |-> [source |-> <<gids[k], 0>>, time |-> ts[j]]]])

\* ------------------------------------------------------------------ state
VARIABLES
    recipe,         \* the recipe the driver was constructed from
    decomp,         \* the domain decomposition
    comm,           \* per rank: connections_ and connection_part_
    num_spikes,     \* per rank: communicator::num_spikes_
    t_,             \* per rank: model::t_
    epoch_,         \* per rank: model::epoch_ (id, tfinal)
    event_lanes_,   \* per rank: the two banks of lanes
    local_spikes_,  \* per rank: the double buffered spike store
    group_t,        \* per rank and group: the time the group has reached
    pc,             \* position of run(): "idle", "loop" or "tasks"
    tfinal,         \* argument of the running run()
    tuntil,         \* per rank: local of run()
    t_interval,     \* local of run()
    ret,            \* per rank: value returned by the last run()
    exchanged,      \* the exchange task of the epoch has completed
    advanced,       \* per rank: groups whose advance has completed
    global_spikes,  \* per rank: result of the last communicator::exchange
    events,         \* per rank: result of the last make_event_queues
    local_out,      \* per rank: arguments of the local spike callback, this run
    global_out,     \* per rank: arguments of the global spike callback, this run
    \* history
    nruns,          \* run() calls so far
    t_start,        \* per rank: t_ when the last run() was called
    clean,          \* no run() since construction or the last reset()
    run_clean,      \* the last run() started on a clean driver
    emitted,        \* spikes emitted by all groups since construction / reset
    run_emitted,    \* bag of the spikes emitted during the last run()
    run_gathered,   \* bag of the spikes handed to the gathers of the last run()
    gathers,        \* per gather of the last run(): number of local spikes handed in
    epochs_log,     \* the epochs executed by the last run()
    handed,         \* per rank and group: lanes handed to its last advance
    produced,       \* events made by make_event_queues that are not yet due
    written,        \* the banks the exchanges wrote: the last one of the run() before, those of this run()
    ref,            \* outputs of the first clean run() to each t_final
    \* library functions called on their own
    call,           \* the function called and its arguments
    result,         \* what the call returned, once it has returned
    object          \* the state of the object the calls are made on

setup   == <<recipe, decomp, comm>>
driver  == <<num_spikes, t_, epoch_, event_lanes_, local_spikes_, group_t>>
locals  == <<pc, tfinal, tuntil, t_interval, ret, exchanged, advanced>>
outputs == <<global_spikes, events, local_out, global_out>>
history == <<nruns, t_start, clean, run_clean, emitted, run_emitted, run_gathered, gathers,
             epochs_log, handed, produced, written, ref>>
library == <<call, result, object>>
vars    == <<setup, driver, locals, outputs, history, library>>

Ranks == RanksOf(decomp)
num_groups(r) == Len(decomp.groups[r])
AllGroupsOf(r) == 1..num_groups(r)
NoRef == <<>>

\* What a caller observes of a finished run(): the spikes passed to the two
\* callbacks and num_spikes().
Out == [local |-> local_out, global |-> global_out, num |-> num_spikes]

Archive == IF ~clean /\ run_clean /\ ref[tfinal] = NoRef
           THEN [ref EXCEPT ![tfinal] = <<Out>>] ELSE ref

empty_lanes(dec, r) == [b \in 1..2 |-> [l \in 1..num_local_cells(dec, r) |-> <<>>]]
empty_store == [index |-> 0, buffers |-> <<(<<>>), (<<>>)>>]

\* No library function is being called on its own.
NoCall == <<>>

\* The functions called have no object.
NoObject == <<>>

\* The driver after construction.
DriverInit ==
    /\ recipe \in Recipes
    /\ decomp \in Decomps
    /\ comm = [r \in RanksOf(decomp) |-> make_connections(recipe, decomp, r)]
    /\ num_spikes = [r \in RanksOf(decomp) |-> 0]
    /\ t_ = [r \in RanksOf(decomp) |-> 0]
    /\ epoch_ = [r \in RanksOf(decomp) |-> [id |-> 0, tfinal |-> 0]]
    /\ event_lanes_ = [r \in RanksOf(decomp) |-> empty_lanes(decomp, r)]
    /\ local_spikes_ = [r \in RanksOf(decomp) |-> empty_store]
    /\ group_t = [r \in RanksOf(decomp) |-> [i \in 1..Len(decomp.groups[r]) |-> 0]]
    /\ pc = "idle"
    /\ tfinal = 0
    /\ tuntil = [r \in RanksOf(decomp) |-> 0]
    /\ t_interval = 0
    /\ ret = [r \in RanksOf(decomp) |-> 0]
    /\ exchanged = FALSE
    /\ advanced = [r \in RanksOf(decomp) |-> {}]
    /\ global_spikes = [r \in RanksOf(decomp) |-> [values |-> <<>>, partition |-> <<>>]]
    /\ events = [r \in RanksOf(decomp) |-> [i \in 1..Len(decomp.groups[r]) |-> <<>>]]
    /\ local_out = [r \in RanksOf(decomp) |-> <<>>]
    /\ global_out = [r \in RanksOf(decomp) |-> <<>>]
    /\ nruns = 0
    /\ t_start = [r \in RanksOf(decomp) |-> 0]
    /\ clean = TRUE
    /\ run_clean = TRUE
    /\ emitted = 0
    /\ run_emitted = EmptyBag
    /\ run_gathered = EmptyBag
    /\ gathers = <<>>
    /\ epochs_log = <<>>
    /\ handed = [r \in RanksOf(decomp) |-> [i \in 1..Len(decomp.groups[r]) |-> <<>>]]
    /\ produced = {}
    /\ written = [before |-> <<>>, run |-> <<>>]
    /\ ref = [T \in 0..MaxT |-> NoRef]

Init ==
    /\ DriverInit
    /\ call = NoCall
    /\ result = NoCall
    /\ object = NoObject

\* ----------------------------------------------------------------- actions
\* model::run: t_interval = communicator_.min_delay()/2
whole_min_delay(md) == md

half_min_delay(md) == md \div 2

\* The record of a run that is over is dropped when the next run() or a
\* reset() begins.
no_result == [r \in Ranks |-> [values |-> <<>>, partition |-> <<>>]]
no_events == [r \in Ranks |-> [i \in AllGroupsOf(r) |-> <<>>]]
no_output == [r \in Ranks |-> <<>>]

\* model::run up to the loop: t_interval, tuntil and the first epoch.
RunStart(T) ==
    /\ pc = "idle"
    /\ nruns < MaxRuns
    /\ T = 0 \/ \A r \in Ranks : T >= t_[r]
    /\ t_interval' = half_min_delay(min_delay(comm, decomp))
    /\ tfinal' = T
    /\ tuntil' = [r \in Ranks |-> Min2(t_[r] + t_interval', T)]
    /\ epoch_' = [r \in Ranks |-> [id |-> 0, tfinal |-> tuntil'[r]]]
    /\ pc' = "loop"
    /\ ret' = [r \in Ranks |-> 0]
    /\ global_spikes' = no_result
    /\ events' = no_events
    /\ local_out' = no_output
    /\ global_out' = no_output
    /\ nruns' = nruns + 1
    /\ t_start' = t_
    /\ run_clean' = clean
    /\ clean' = FALSE
    /\ run_emitted' = EmptyBag
    /\ run_gathered' = EmptyBag
    /\ gathers' = <<>>
    /\ epochs_log' = <<>>
    /\ handed' = no_events
    /\ written' = [before |-> IF written.run = <<>> THEN written.before
                              ELSE <<written.run[Len(written.run)]>>,
                   run    |-> <<>>]
    /\ UNCHANGED <<setup, library, num_spikes, t_, event_lanes_, local_spikes_, group_t,
                   exchanged, advanced, emitted, produced, ref>>

\* The head of the loop body: local_spikes_->exchange() and
\* current_spikes().clear().
epoch_store(db) == clear_current(db_exchange(db))

\* The loop head when t_ < tfinal: swap the spike buffers, clear the
\* current one and launch the two tasks.
EpochBegin ==
    /\ pc = "loop"
    /\ \A r \in Ranks : t_[r] < tfinal
    /\ local_spikes_' = [r \in Ranks |-> epoch_store(local_spikes_[r])]
    /\ pc' = "tasks"
    /\ epochs_log' = Append(epochs_log, [id |-> epoch_[0].id, t_begin |-> t_[0], t_end |-> epoch_[0].tfinal])
    /\ UNCHANGED <<setup, library, num_spikes, t_, epoch_, event_lanes_, group_t,
                   tfinal, tuntil, t_interval, ret, exchanged, advanced, outputs,
                   nruns, t_start, clean, run_clean, emitted, run_emitted, run_gathered, gathers,
                   handed, produced, written, ref>>

\* The argument of the global spike callback: global_spikes.values().
first_slice(gs) == SubSeq(gs.values, 1, gs.partition[2])

exported_values(gs) == gs.values

\* The exchange lambda of run() on all ranks, reading the spike stores dbs:
\* gather, tally, callbacks, make_event_queues and the merges.
Exchange(dbs) ==
    LET local(r)  == previous_spikes(dbs[r])
        sorted    == [r \in Ranks |-> sort_spikes(local(r))]
        gathered  == [r \in Ranks |-> gather_all_with_partition(sorted, decomp)]
        queues    == [r \in Ranks |-> make_event_queues(comm[r], gathered[r], num_groups(r), decomp.num_domains)]
    IN  /\ global_spikes' = gathered
        /\ num_spikes' = [r \in Ranks |-> num_spikes[r] + Len(gathered[r].values)]
        /\ local_out' = [r \in Ranks |-> Append(local_out[r], local(r))]
        /\ global_out' = [r \in Ranks |-> Append(global_out[r], exported_values(gathered[r]))]
        /\ events' = queues
        /\ event_lanes_' = [r \in Ranks |-> merge_all(event_lanes_[r], queues[r], epoch_[r])]
        /\ run_gathered' = run_gathered (+) BagOf(Concat([d \in 1..decomp.num_domains |-> local(d - 1)]))
        /\ gathers' = Append(gathers, SumSeq([d \in 1..decomp.num_domains |-> Len(local(d - 1))]))
        /\ written' = [written EXCEPT !.run =
              Append(@, [r \in Ranks |-> event_lanes_'[r][bank(epoch_[r].id + 1)]])]
        /\ produced' = produced \cup
              UNION { UNION { { [rank |-> r, group |-> g, event |-> queues[r][g][k]] :
                                  k \in 1..Len(queues[r][g]) } :
                              g \in AllGroupsOf(r) } :
                      r \in Ranks }

\* The exchange task of an epoch.
ExchangeTask ==
    /\ pc = "tasks"
    /\ ~exchanged
    /\ Exchange(local_spikes_)
    /\ exchanged' = TRUE
    /\ UNCHANGED <<setup, library, t_, epoch_, local_spikes_, group_t,
                   pc, tfinal, tuntil, t_interval, ret, advanced,
                   nruns, t_start, clean, run_clean, emitted, run_emitted, epochs_log, handed, ref>>

\* util::subrange_view: the elements of seq at the indices of range.
subrange_view(seq, range) ==
    LET first == CHOOSE l \in range : \A m \in range : l <= m
    IN  SubSeq(seq, first, first + Cardinality(range) - 1)

\* One iteration of the parallel_for of update_cells: group i of rank r is
\* advanced over the epoch with the lanes of its queue range, its spikes
\* are inserted into the current spike buffer and cleared.
AdvanceGroup(r, i) ==
    /\ pc = "tasks"
    /\ i \notin advanced[r]
    /\ LET lanes  == event_lanes_[r][bank(epoch_[r].id)]
           range  == group_queue_range(decomp, r, i)
           queues == subrange_view(lanes, range)
           spikes == group_advance(recipe, decomp.groups[r][i], group_t[r][i], epoch_[r].tfinal, queues)
       IN  /\ local_spikes_' = [local_spikes_ EXCEPT ![r] = insert_current(@, spikes)]
           /\ emitted' = emitted + Len(spikes)
           /\ run_emitted' = run_emitted (+) BagOf(spikes)
           /\ handed' = [handed EXCEPT ![r][i] = queues]
    /\ group_t' = [group_t EXCEPT ![r][i] = epoch_[r].tfinal]
    /\ advanced' = [advanced EXCEPT ![r] = @ \cup {i}]
    /\ UNCHANGED <<setup, library, num_spikes, t_, epoch_, event_lanes_,
                   pc, tfinal, tuntil, t_interval, ret, exchanged, outputs,
                   nruns, t_start, clean, run_clean, run_gathered, gathers, epochs_log, produced, written, ref>>

\* A wait that returns when the exchange task is complete.
wait_for_exchange(exchange_done, advance_done) == exchange_done

\* task_group::wait of the group of the two tasks: it returns when the
\* exchange task and the update_cells task are complete, the latter being
\* complete when the wait of its parallel_for has returned, that is when
\* every per-group advance is complete.
task_group_wait(exchange_done, advance_done) ==
    exchange_done /\ \A r \in DOMAIN advance_done : advance_done[r] = AllGroupsOf(r)

\* g.wait() and the rest of the loop body: both tasks are complete, the
\* task group ends; t_ and the epoch move on. (epoch::advance increments the
\* id and sets tfinal.)
Join ==
    /\ pc = "tasks"
    /\ task_group_wait(exchanged, advanced)
    /\ t_' = tuntil
    /\ tuntil' = [r \in Ranks |-> Min2(t_'[r] + t_interval, tfinal)]
    /\ epoch_' = [r \in Ranks |-> [id |-> epoch_[r].id + 1, tfinal |-> tuntil'[r]]]
    /\ pc' = "loop"
    /\ exchanged' = FALSE
    /\ advanced' = [r \in Ranks |-> {}]
    /\ produced' = {p \in produced : p.event.time >= t_'[p.rank]}
    /\ UNCHANGED <<setup, library, num_spikes, event_lanes_, local_spikes_, group_t,
                   tfinal, t_interval, ret, outputs,
                   nruns, t_start, clean, run_clean, emitted, run_emitted, run_gathered, gathers,
                   epochs_log, handed, written, ref>>

\* The value run() returns: return t_.
time_asked_for(t, T) == T

time_reached(t, T) == t

\* After the loop: local_spikes_->exchange() before the last exchange().
store_without_swap(db) == db

last_store(db) == db_exchange(db)

\* The loop head when t_ >= tfinal: the last swap and exchange, return t_.
Finish ==
    /\ pc = "loop"
    /\ \A r \in Ranks : ~(t_[r] < tfinal)
    /\ local_spikes_' = [r \in Ranks |-> last_store(local_spikes_[r])]
    /\ Exchange(local_spikes_')
    /\ ret' = [r \in Ranks |-> time_reached(t_[r], tfinal)]
    /\ pc' = "idle"
    /\ UNCHANGED <<setup, library, t_, epoch_, group_t,
                   tfinal, tuntil, t_interval, exchanged, advanced,
                   nruns, t_start, clean, run_clean, emitted, run_emitted, epochs_log, handed, ref>>

\* model::reset, with communicator::reset and the reset of every group.
reset_first_bank(lanes) == [b \in 1..2 |-> IF b = 1 THEN [l \in 1..Len(lanes[b]) |-> <<>>] ELSE lanes[b]]

reset_lanes(lanes) == [b \in 1..2 |-> [l \in 1..Len(lanes[b]) |-> <<>>]]

ResetDriver ==
    /\ pc = "idle"
    /\ t_' = [r \in Ranks |-> 0]
    /\ group_t' = [r \in Ranks |-> [i \in AllGroupsOf(r) |-> 0]]
    /\ event_lanes_' = [r \in Ranks |-> reset_lanes(event_lanes_[r])]
    /\ num_spikes' = [r \in Ranks |-> 0]
    /\ local_spikes_' = [r \in Ranks |-> clear_both(local_spikes_[r])]
    /\ clean' = TRUE
    /\ emitted' = 0
    /\ produced' = {}
    /\ written' = [before |-> <<>>, run |-> <<>>]
    /\ global_spikes' = no_result
    /\ events' = no_events
    /\ local_out' = no_output
    /\ global_out' = no_output
    /\ run_emitted' = EmptyBag
    /\ run_gathered' = EmptyBag
    /\ gathers' = <<>>
    /\ epochs_log' = <<>>
    /\ handed' = no_events
    /\ t_start' = [r \in Ranks |-> 0]
    /\ UNCHANGED <<setup, library, epoch_, locals, nruns, run_clean>>

Reset == ResetDriver /\ UNCHANGED ref

Next ==
    \/ \E T \in 0..MaxT : RunStart(T)
    \/ EpochBegin
    \/ ExchangeTask
    \/ \E r \in Ranks : \E i \in AllGroupsOf(r) : AdvanceGroup(r, i)
    \/ Join
    \/ Finish
    \/ Reset

Spec == Init /\ [][Next]_vars

\* The driver used for clean runs only: every run() starts on a constructed
\* or reset driver, and reset() files what the run before it passed to the
\* callbacks under its t_final.
CleanRunStart(T) == clean /\ RunStart(T)

ResetAndFile == ResetDriver /\ ref' = Archive

NextClean ==
    \/ \E T \in 0..MaxT : CleanRunStart(T)
    \/ EpochBegin
    \/ ExchangeTask
    \/ \E r \in Ranks : \E i \in AllGroupsOf(r) : AdvanceGroup(r, i)
    \/ Join
    \/ Finish
    \/ ResetAndFile

CleanSpec == Init /\ [][NextClean]_vars

TypeOK ==
    /\ pc \in {"idle", "loop", "tasks"}
    /\ \A r \in Ranks : t_[r] \in 0..MaxT

\* ------------------------------------------------------------------ claims
AllEvents(r) == Range(Concat(events[r]))

\* C1: in every epoch run() executes, every event the exchange task of that
\* epoch derives from a gathered spike and a connection has a time at or
\* after the end of the epoch (no spike is delivered in the epoch whose
\* exchange gathered it).
C1_EventsNotBeforeEpochEnd ==
    (pc = "tasks" /\ exchanged) =>
        \A r \in Ranks : \A e \in AllEvents(r) : e.time >= epoch_[r].tfinal

\* The group of rank r that holds cell gid.
GroupOfCell(r, gid) == CHOOSE g \in AllGroupsOf(r) : gid \in Range(decomp.groups[r][g])

\* C2: every event made for a group lies only in lanes that are handed to
\* that group, and is among the lanes handed to the advance of its group in
\* the epoch that contains its time.
C2_EventsReachTheirGroup ==
    /\ \A r \in Ranks : \A b \in 1..2 : \A l \in 1..Len(event_lanes_[r][b]) :
          \A e \in Range(event_lanes_[r][b][l]) :
              l \in group_queue_range(decomp, r, GroupOfCell(r, e.target[1]))
    /\ pc = "tasks" =>
          \A p \in produced :
              (/\ p.group \in advanced[p.rank]
               /\ t_[p.rank] <= p.event.time
               /\ p.event.time < epoch_[p.rank].tfinal)
              => p.event \in Range(Concat(handed[p.rank][p.group]))

\* The total order of postsynaptic_spike_event: time, then target, then weight.
event_less_eq(a, b) ==
    \/ a.time < b.time
    \/ a.time = b.time /\ MemberLess(a.target, b.target)
    \/ a.time = b.time /\ a.target = b.target /\ a.weight <= b.weight

IsSortedLane(lane) ==
    \A i \in 1..(Len(lane) - 1) : event_less_eq(lane[i], lane[i + 1])

\* C3: every event lane in both banks is sorted by time, then target, then
\* weight.
C3_LanesSortedByTimeTargetWeight ==
    \A r \in Ranks : \A b \in 1..2 : \A l \in 1..Len(event_lanes_[r][b]) :
        IsSortedLane(event_lanes_[r][b][l])

\* A run() has returned and no reset() has followed it.
Returned == pc = "idle" /\ ~clean

NumSpikesNotDecreased == \A r \in Ranks : num_spikes'[r] >= num_spikes[r]

\* C4: num_spikes() never decreases unless reset() is called, and when run()
\* has returned it equals the number of spikes emitted by all groups on all
\* ranks since construction or the last reset().
C4_NumSpikesCountsEmitted ==
    /\ [](Returned => \A r \in Ranks : num_spikes[r] = emitted)
    /\ [][clean' \/ NumSpikesNotDecreased]_vars

\* The run() that is executing or was last executed started on a constructed
\* or reset driver.
InCleanRun == run_clean /\ ~clean

LastEpoch == epochs_log[Len(epochs_log)]

\* The spikes of bag B with a time at or after t.
SpikesFrom(B, t) == [s \in {x \in BagToSet(B) : x.time >= t} |-> B[s]]

\* C5: in a run() started on a constructed or reset driver the first exchange
\* gathers no spike and the first advance reads empty lanes; when run() has
\* returned there was exactly one exchange more than epochs, the last one
\* gathered the spikes of the last epoch, and every spike emitted in the run
\* was gathered exactly once.
C5_PrimingAndFinalExchange ==
    InCleanRun =>
        /\ Len(gathers) >= 1 => gathers[1] = 0
        /\ (pc = "tasks" /\ Len(epochs_log) = 1) =>
              \A r \in Ranks : \A i \in advanced[r] :
                  \A k \in 1..Len(handed[r][i]) : handed[r][i][k] = <<>>
        /\ pc = "idle" =>
              /\ Len(gathers) = Len(epochs_log) + 1
              /\ run_gathered = run_emitted
              /\ Len(epochs_log) >= 1 =>
                    BagOf(Concat([d \in 1..decomp.num_domains |->
                                     local_out[d - 1][Len(local_out[d - 1])]]))
                        = SpikesFrom(run_emitted, LastEpoch.t_begin)

\* A clean run of three epochs has returned, with spikes emitted in the first
\* and in the last epoch.
C5_Witness ==
    /\ InCleanRun
    /\ pc = "idle"
    /\ Len(epochs_log) >= 3
    /\ gathers[2] > 0
    /\ gathers[Len(gathers)] > 0

\* The local spikes rank d handed to the last exchange (as passed to its
\* local spike callback).
HandedIn(d) == local_out[d][Len(local_out[d])]

\* The slice of rank d in the global spike vector rank r obtained.
SliceOf(r, d) ==
    SubSeq(global_spikes[r].values,
           global_spikes[r].partition[d + 1] + 1, global_spikes[r].partition[d + 2])

SortedBySource(spikes) ==
    \A i \in 1..(Len(spikes) - 1) :
        spikes[i].source = spikes[i + 1].source
            \/ MemberLess(spikes[i].source, spikes[i + 1].source)

\* C6: after every exchange all ranks hold the same global spike vector and
\* partition; the partition cuts the vector into one slice per rank, in rank
\* order; the slice of a rank holds exactly the spikes that rank handed in,
\* sorted by source; and the vector holds exactly the spikes of all ranks.
C6_SameGatheredVectorOnAllRanks ==
    Len(local_out[0]) >= 1 =>
        /\ \A r1, r2 \in Ranks : global_spikes[r1] = global_spikes[r2]
        /\ \A r \in Ranks :
              LET gs == global_spikes[r]
              IN  /\ Len(gs.partition) = decomp.num_domains + 1
                  /\ gs.partition[1] = 0
                  /\ gs.partition[Len(gs.partition)] = Len(gs.values)
                  /\ \A d \in Ranks :
                        /\ gs.partition[d + 1] <= gs.partition[d + 2]
                        /\ BagOf(SliceOf(r, d)) = BagOf(HandedIn(d))
                        /\ SortedBySource(SliceOf(r, d))
                  /\ BagOf(gs.values)
                        = BagOf(Concat([d \in 1..decomp.num_domains |-> HandedIn(d - 1)]))

\* Two ranks have exchanged, both handed spikes in, and rank 0 handed its
\* spikes in out of source order.
C6_Witness ==
    /\ decomp.num_domains = 2
    /\ Len(local_out[0]) >= 1
    /\ Len(HandedIn(0)) >= 2
    /\ Len(HandedIn(1)) >= 1
    /\ ~SortedBySource(HandedIn(0))

\* C7: when a run(t_final) on a reset driver has returned, the spikes it
\* passed to the local and global spike callbacks and num_spikes() are those
\* of the earlier run(t_final) that started on the constructed driver.
C7_ResetThenRunReproduces ==
    (InCleanRun /\ pc = "idle" /\ ref[tfinal] # NoRef) => Out = ref[tfinal][1]

\* The state reset() leaves behind.
PostReset ==
    \A r \in Ranks :
        /\ t_[r] = 0
        /\ \A i \in AllGroupsOf(r) : group_t[r][i] = 0
        /\ \A b \in 1..2 : \A l \in 1..Len(event_lanes_[r][b]) : event_lanes_[r][b][l] = <<>>
        /\ current_spikes(local_spikes_[r]) = <<>>
        /\ previous_spikes(local_spikes_[r]) = <<>>
        /\ num_spikes[r] = 0

\* C8: every reset(), whatever the state it is called in, leaves t_ at 0,
\* every group reset, every lane of both banks empty, both spike buffers
\* empty and num_spikes() at 0.
C8_ResetClearsDriver == [][ResetDriver => PostReset']_vars

\* reset() has been called after two run() calls without a reset between
\* them, the last of which reached t = 2 or later, in a network with
\* connections.
C8_Witness ==
    /\ clean
    /\ nruns >= 2
    /\ ~run_clean
    /\ ret[0] >= 2
    /\ Len(recipe.conns) >= 1

\* The control state of run(): the position of the loop and the tasks of
\* the epoch that are complete. Every step of run() changes it.
control == <<pc, exchanged, advanced>>

\* Some step of a run() that has been called and has not returned.
RunStep ==
    /\ pc # "idle"
    /\ pc' \in {"idle", "loop", "tasks"}
    /\ exchanged' \in BOOLEAN
    /\ advanced' \in [Ranks -> SUBSET (1..num_cells)]

\* The driver whose threads are scheduled: while a run() has not returned,
\* the thread in its loop and the tasks it launched keep making steps.
LiveSpec == Init /\ [][Next]_vars /\ WF_control(RunStep)

\* C9: every run() returns, and it returns t_: t_final when t_final was
\* greater than t_ at the call, and the unchanged t_, with no epoch executed
\* and no group advanced, when it was not.
C9_RunTerminatesAndReturnsTimeReached ==
    /\ (pc # "idle") ~> (pc = "idle")
    /\ [](Returned =>
            \A r \in Ranks :
                /\ ret[r] = t_[r]
                /\ tfinal > t_start[r] => ret[r] = tfinal
                /\ tfinal <= t_start[r] =>
                      /\ ret[r] = t_start[r]
                      /\ epochs_log = <<>>
                      /\ run_emitted = EmptyBag
                      /\ handed = no_events)

\* A run() has reached t = 3 or later and returned, and the next run(),
\* called with t_final = 0, has returned the unchanged t_.
C9_Witness ==
    /\ Returned
    /\ nruns >= 2
    /\ t_start[0] >= 3
    /\ tfinal = 0
    /\ ret[0] = t_start[0]

\* C10: the epochs of a run() are contiguous: the first begins at t_ of the
\* call, each next one begins where the one before ended and has
\* the next id, each is longer than 0 and at most min_delay/2 long, and when
\* run() has returned the last one ended at t_final.
C10_EpochsContiguous ==
    ~clean =>
        /\ Len(epochs_log) >= 1 => epochs_log[1].t_begin = t_start[0]
        /\ \A k \in 1..Len(epochs_log) :
              /\ epochs_log[k].t_begin < epochs_log[k].t_end
              /\ 2 * (epochs_log[k].t_end - epochs_log[k].t_begin) <= min_delay(comm, decomp)
        /\ \A k \in 1..(Len(epochs_log) - 1) :
              /\ epochs_log[k + 1].t_begin = epochs_log[k].t_end
              /\ epochs_log[k + 1].id = epochs_log[k].id + 1
        /\ (pc = "idle" /\ Len(epochs_log) >= 1) => LastEpoch.t_end = tfinal

\* A run() of three epochs, called at t_ > 0, has returned.
C10_Witness ==
    /\ Returned
    /\ Len(epochs_log) >= 2
    /\ t_start[0] >= 1
    /\ LastEpoch.t_end = tfinal

\* The exchanges a run() has completed so far: one in every epoch that is
\* over, one in the current epoch once its exchange task is complete, and
\* one after the loop.
ExchangesDone ==
    CASE pc = "tasks" -> Len(epochs_log) - 1 + (IF exchanged THEN 1 ELSE 0)
      [] pc = "loop"  -> Len(epochs_log)
      [] pc = "idle"  -> Len(epochs_log) + 1

\* C11 as stated: a run() that has returned has invoked each spike callback
\* once per epoch, that is as many times as it executed epochs.
C11_CallbacksOncePerEpoch ==
    Returned =>
        \A r \in Ranks : /\ Len(local_out[r]) = Len(epochs_log)
                         /\ Len(global_out[r]) = Len(epochs_log)

\* C11, amended: each spike callback is invoked exactly once per exchange,
\* after the gather: once in every epoch and once more by the exchange after
\* the last epoch. The local callback receives the spikes this rank handed
\* to the gather, the global callback the gathered spikes of all ranks.
C11_CallbacksOncePerExchange ==
    ~clean =>
        \A r \in Ranks :
            /\ Len(local_out[r]) = ExchangesDone
            /\ Len(global_out[r]) = ExchangesDone
            /\ ExchangesDone >= 1 =>
                  /\ (pc # "tasks" \/ exchanged) =>
                        HandedIn(r) = previous_spikes(local_spikes_[r])
                  /\ global_out[r][Len(global_out[r])] = global_spikes[r].values
                  /\ BagOf(global_out[r][Len(global_out[r])])
                        = BagOf(Concat([d \in 1..decomp.num_domains |-> HandedIn(d - 1)]))

\* On two ranks the exchange task of the second epoch has invoked the
\* callbacks with spikes of both ranks, the tasks of the epoch still running.
C11_Witness ==
    /\ decomp.num_domains = 2
    /\ pc = "tasks"
    /\ exchanged
    /\ Len(epochs_log) = 2
    /\ Len(local_out[0]) = 2
    /\ Len(HandedIn(0)) >= 1
    /\ Len(global_out[1][2]) > Len(HandedIn(1))

\* The connections in the tables of all ranks.
GlobalNetwork == UNION { Range(comm[r].connections) : r \in Ranks }

RECURSIVE Pow2(_)
Pow2(k) == IF k = 0 THEN 1 ELSE 2 * Pow2(k - 1)

LimbBits == (DoubleDigits + 1) \div 3

Limb == Pow2(LimbBits)

DoubleZero == [c |-> <<>>, e |-> 0]

\* The exact value held in the limbs c at exponent e plus, if more is set,
\* some amount below the last bit, rounded toward zero.
round_toward_zero(c, e, more) == [c |-> <<c[1], c[2], c[3] - (c[3] % 2)>>, e |-> e]

\* The same value rounded to the nearest double, ties to even.
round_to_nearest(c, e, more) ==
    LET guard == c[3] % 2
        odd   == (c[3] \div 2) % 2 = 1
        up    == guard = 1 /\ (more \/ odd)
        s3    == c[3] - guard + 2
        s2    == c[2] + s3 \div Limb
        s1    == c[1] + s2 \div Limb
    IN  IF ~up THEN [c |-> <<c[1], c[2], c[3] - guard>>, e |-> e]
        ELSE IF s1 = Limb THEN [c |-> <<Limb \div 2, 0, 0>>, e |-> e + 1]
             ELSE [c |-> <<s1, s2 % Limb, s3 % Limb>>, e |-> e]

\* The least k with a * 2^k >= d, for a > 0.
RECURSIVE shift_to(_, _)
shift_to(a, d) == IF a >= d THEN 0 ELSE 1 + shift_to(2 * a, d)

\* a / (double)d for integers 0 <= a <= d, d > 0: long division, one limb
\* at a time.
double_divide(a, d) ==
    IF a = 0 THEN DoubleZero
    ELSE LET k  == shift_to(a, d)
             n1 == a * Pow2(k) * (Limb \div 2)
             n2 == (n1 % d) * Limb
             n3 == (n2 % d) * Limb
         IN  round_to_nearest(<<n1 \div d, n2 \div d, n3 \div d>>, -k, (n3 % d) # 0)

\* The least s with t < Limb * 2^s.
RECURSIVE excess_bits(_)
excess_bits(t) == IF t < Limb THEN 0 ELSE 1 + excess_bits(t \div 2)

\* n * x for an unsigned integer n < Limb (converted to double exactly) and
\* a double x: the exact product limb by limb, shifted back to three limbs.
double_multiply(n, x) ==
    IF n = 0 \/ x.c = <<>> THEN DoubleZero
    ELSE LET t3 == n * x.c[3]
             t2 == n * x.c[2] + t3 \div Limb
             t1 == n * x.c[1] + t2 \div Limb
             l2 == t2 % Limb
             l3 == t3 % Limb
             s  == excess_bits(t1)
             p  == Pow2(s)
         IN  round_to_nearest(<<t1 \div p,
                                ((t1 % p) * Limb + l2) \div p,
                                ((l2 % p) * Limb + l3) \div p>>,
                              x.e + s, (l3 % p) # 0)

\* (cell_gid_type) x for a double 0 <= x < Limb: the fraction is discarded.
to_cell_gid(x) ==
    IF x.c = <<>> \/ x.e < 0 THEN 0
    ELSE x.c[1] \div Pow2(LimbBits - 1 - x.e)

\* --------------------------------- domain_decomposition (the older class)
\* domain_decomposition::first_cell
first_cell(num_global_cells, num_domains, dom) ==
    to_cell_gid(double_multiply(num_global_cells, double_divide(dom, num_domains)))

\* gid_part_ of the older class.
gid_part_(num_global_cells, num_domains) ==
    [d \in 1..(num_domains + 1) |-> first_cell(num_global_cells, num_domains, d - 1)]

\* The cells of the block [b, e) whatever their kind.
block_cells(rec, b, e, k) == [i \in 1..(e - b) |-> b + i - 1]

\* kind_lists[k] of the older class: the cells of kind k in the block [b, e).
block_kind_list(rec, b, e, k) ==
    SelectSeq([i \in 1..(e - b) |-> b + i - 1], LAMBDA gid : get_cell_kind(rec, gid) = k)

\* domain_decomposition::domain_decomposition on domain domain_id. The kinds
\* are partitioned by has_gpu_backend, which holds for cable1d_neuron only;
\* a kind with a GPU backend is one group on a node with a GPU, every other
\* cell is a group of its own.
domain_decomposition(rec, num_gpus, num_domains, domain_id) ==
    LET b == first_cell(rec.num_cells, num_domains, domain_id)
        e == first_cell(rec.num_cells, num_domains, domain_id + 1)
        kinds == SelectSeq(<<"cable1d_neuron", "lif_neuron">>,
                           LAMBDA k : block_kind_list(rec, b, e, k) # <<>>)
        groups_of(k) ==
            LET cells == block_kind_list(rec, b, e, k)
            IN  IF num_gpus > 0 /\ k = "cable1d_neuron"
                THEN <<[kind |-> k, gids |-> cells, backend |-> "gpu"]>>
                ELSE [i \in 1..Len(cells) |->
                         [kind |-> k, gids |-> <<cells[i]>>, backend |-> "multicore"]]
    IN  [returned         |-> TRUE,
         error            |-> "",
         num_domains      |-> num_domains,
         domain_id        |-> domain_id,
         num_local_cells  |-> e - b,
         num_global_cells |-> rec.num_cells,
         groups           |-> Concat([j \in 1..Len(kinds) |-> groups_of(kinds[j])]),
         gid_part_        |-> gid_part_(rec.num_cells, num_domains)]

\* ------------------------------------ the load balancer called on its own
\* std::binary_search on a sorted range.
binary_search(s, x) ==
    LET p == PartitionPoint(s, 1, [y \in Range(s) |-> y < x])
    IN  p <= Len(s) /\ s[p] = x

\* partition_gid_domain::operator(): the first domain whose slice of the
\* gathered gids holds gid, -1 if there is none.
partition_gid_domain(divs, num_domains, gid) ==
    LET rank_gids(i) == SubSeq(divs.values, divs.partition[i + 1] + 1, divs.partition[i + 2])
        holders      == {i \in 0..(num_domains - 1) : binary_search(rank_gids(i), gid)}
    IN  IF holders = {} THEN -1 ELSE CHOOSE i \in holders : \A j \in holders : i <= j

\* partition_load_balance on every rank of a multi-rank transport. A rank
\* that throws returns no decomposition; gather_gids is a collective, so
\* that when a rank has thrown no other rank gets past it and none returns.
load_balance(c) ==
    LET doms   == 0..(c.num_domains - 1)
        local  == [r \in doms |->
                      local_load_balance(c.rec, c.hint, c.gpu_avail, c.map_order, c.num_domains, r)]
        thrown == {r \in doms : local[r].error # ""}
        global_gids == gather_all_with_partition([r \in doms |-> local[r].local_gids],
                                                 [num_domains |-> c.num_domains])
    IN  [r \in doms |->
            IF r \in thrown THEN [returned |-> FALSE, error |-> local[r].error]
            ELSE IF thrown # {} THEN [returned |-> FALSE, error |-> ""]
            ELSE [returned         |-> TRUE,
                  error            |-> "",
                  num_domains      |-> local[r].num_domains,
                  domain_id        |-> local[r].domain_id,
                  num_local_cells  |-> local[r].num_local_cells,
                  num_global_cells |-> local[r].num_global_cells,
                  groups           |-> local[r].groups,
                  gid_domain       |-> global_gids]]

\* The gap junctions a recipe of n cells can have.
Junctions(n) == {e \in SUBSET (0..(n - 1)) : Cardinality(e) = 2}

\* Whether a GPU is available and the order of the kinds in the map of the
\* kind lists. With a GPU the kinds are partitioned by their backend, and
\* the order of the map makes no difference.
Platforms ==
    { [gpu_avail |-> TRUE,  map_order |-> <<"cable1d_neuron", "lif_neuron">>],
      [gpu_avail |-> FALSE, map_order |-> <<"cable1d_neuron", "lif_neuron">>],
      [gpu_avail |-> FALSE, map_order |-> <<"lif_neuron", "cable1d_neuron">>] }

\* A call of partition_load_balance or of the constructor of the older
\* domain_decomposition: a recipe of n cells of kinds k with the gap
\* junctions g, a CPU group size hint gs, platform p and nd ranks. (The
\* older class knows neither gap junctions nor hints.)
BalanceCall(fn, n, k, g, gs, p, nd) ==
    [fn          |-> fn,
     rec         |-> [num_cells |-> n, kind |-> k, gj |-> g],
     hint        |-> [cpu_group_size |-> gs, gpu_group_size |-> n + 1, prefer_gpu |-> TRUE],
     gpu_avail   |-> p.gpu_avail,
     map_order   |-> p.map_order,
     num_domains |-> nd]

\* The driver that is not used while a library function is called on its
\* own: constructed without connections on one rank.
DriverUnused ==
    /\ DriverInit
    /\ recipe.conns = <<>>
    /\ decomp = partition_load_balance(1, 1)

\* The calls of partition_load_balance: a recipe of up to MaxCells cells of
\* any kinds with up to MaxJunctions gap junctions, up to MaxDomains ranks,
\* a CPU group size hint of 1 or MaxGroupSize, on every platform.
BalanceInit ==
    /\ DriverUnused
    /\ object = NoObject
    /\ \E n \in 0..MaxCells :
          \E k \in [0..(n - 1) -> Kinds] :
             \E g \in {x \in SUBSET Junctions(n) : Cardinality(x) <= MaxJunctions} :
                \E gs \in {1, MaxGroupSize} : \E p \in Platforms : \E nd \in 1..MaxDomains :
                   \/ call = BalanceCall("partition_load_balance", n, k, g, gs, p, nd)
                   \/ /\ g = {}
                      /\ gs = 1
                      /\ call = BalanceCall("domain_decomposition", n, k, g, gs, p, nd)
    /\ result = NoCall

\* partition_load_balance is called on all ranks.
LoadBalance ==
    /\ call # NoCall
    /\ call.fn = "partition_load_balance"
    /\ result = NoCall
    /\ result' = load_balance(call)
    /\ UNCHANGED <<setup, driver, locals, outputs, history, call, object>>

\* The older domain_decomposition is constructed on all ranks.
Decompose ==
    /\ call # NoCall
    /\ call.fn = "domain_decomposition"
    /\ result = NoCall
    /\ result' = [r \in 0..(call.num_domains - 1) |->
                     domain_decomposition(call.rec, IF call.gpu_avail THEN 1 ELSE 0,
                                          call.num_domains, r)]
    /\ UNCHANGED <<setup, driver, locals, outputs, history, call, object>>

BalanceNext == LoadBalance \/ Decompose

BalanceSpec == BalanceInit /\ [][BalanceNext]_vars

\* partition_load_balance has been called and has come to an end on every
\* rank.
Balanced == call # NoCall /\ call.fn = "partition_load_balance" /\ result # NoCall

BalanceRanks == 0..(call.num_domains - 1)

BalanceCells == 0..(call.rec.num_cells - 1)

\* The cells joined to the cells of S by a path of gap junctions.
RECURSIVE Component(_, _)
Component(rec, S) ==
    LET more == S \cup {p \in 0..(rec.num_cells - 1) : \E s \in S : {s, p} \in rec.gj}
    IN  IF more = S THEN S ELSE Component(rec, more)

\* The groups of the decomposition rank r returned that hold gid.
GroupsHolding(r, gid) ==
    {g \in 1..Len(result[r].groups) : gid \in Range(result[r].groups[g].gids)}

\* C12: in every decomposition that is returned, two cells joined by a gap
\* junction or by a path of gap junctions have the same gid_domain, a rank
\* of the transport, and are members of one group description of that rank,
\* whichever blocks the two cells fall into.
C12_GapJunctionCohesion ==
    Balanced =>
        \A r \in BalanceRanks : result[r].returned =>
            \A a \in BalanceCells : \A b \in Component(call.rec, {a}) :
                LET home == partition_gid_domain(result[r].gid_domain, call.num_domains, a)
                IN  /\ home \in BalanceRanks
                    /\ home = partition_gid_domain(result[r].gid_domain, call.num_domains, b)
                    /\ \E g \in GroupsHolding(home, a) : g \in GroupsHolding(home, b)

\* A decomposition over two ranks was returned for four cells, where cells
\* 0, 1 and 2 are joined by a path of gap junctions that crosses from the
\* block of rank 0 into the block of rank 1, with a group size hint of 1.
C12_Witness ==
    /\ Balanced
    /\ call.num_domains = 2
    /\ call.rec.num_cells = 4
    /\ call.rec.gj = {{0, 1}, {1, 2}}
    /\ call.hint.cpu_group_size = 1
    /\ ~call.gpu_avail
    /\ result[0].returned
    /\ result[1].returned
    /\ GroupsHolding(0, 2) # {}

\* The rank whose block holds gid.
BlockRank(gid) ==
    LET gid_part == gid_divisions(call.rec.num_cells, call.num_domains)
    IN  CHOOSE r \in BalanceRanks : gid_part[r + 1] <= gid /\ gid < gid_part[r + 2]

\* The smallest gid of the gap junction component of gid (gid itself for a
\* cell without gap junctions).
SmallestPeer(gid) ==
    LET comp == Component(call.rec, {gid})
    IN  CHOOSE m \in comp : \A x \in comp : m <= x

\* The places at which the group descriptions of rank r list gid.
Listings(r, gid) ==
    {<<g, i>> \in (1..Len(result[r].groups)) \X (1..call.rec.num_cells) :
        i <= Len(result[r].groups[g].gids) /\ result[r].groups[g].gids[i] = gid}

\* C13: in the decompositions returned to the ranks, every gid in [0, N) is
\* listed by the groups of exactly one rank, once, in one group: the rank
\* whose block holds the smallest gid of its gap junction component (its own
\* block for a cell without gap junctions); gid_domain returns that rank on
\* every rank, and num_local_cells counts the cells a rank owns.
C13_EveryCellOwnedOnce ==
    (Balanced /\ \A r \in BalanceRanks : result[r].returned) =>
        /\ \A gid \in BalanceCells :
              LET owner == BlockRank(SmallestPeer(gid))
              IN  /\ \A r \in BalanceRanks :
                        /\ Cardinality(Listings(r, gid)) = (IF r = owner THEN 1 ELSE 0)
                        /\ partition_gid_domain(result[r].gid_domain, call.num_domains, gid) = owner
                  /\ gap_junctions_on(call.rec, gid) = <<>> => owner = BlockRank(gid)
        /\ \A r \in BalanceRanks :
              /\ result[r].num_local_cells
                    = Cardinality({gid \in BalanceCells : BlockRank(SmallestPeer(gid)) = r})
              /\ result[r].num_global_cells = call.rec.num_cells

\* Two ranks were returned decompositions of four cells where cell 2, in the
\* block of rank 1, is joined to cell 1 in the block of rank 0 and so is owned
\* by rank 0, and cell 3 has no gap junction.
C13_Witness ==
    /\ Balanced
    /\ call.num_domains = 2
    /\ call.rec.num_cells = 4
    /\ call.rec.gj = {{1, 2}}
    /\ result[0].returned
    /\ result[0].num_local_cells = 3
    /\ result[1].num_local_cells = 1
    /\ Listings(0, 2) # {}

\* A decomposition has been made by either of the two, on every rank.
Decomposed ==
    /\ call # NoCall
    /\ call.fn \in {"partition_load_balance", "domain_decomposition"}
    /\ result # NoCall

\* C14: every group description of a decomposition, made by
\* partition_load_balance or by the constructor of the older
\* domain_decomposition, holds cells of one kind only, the kind recorded in
\* the description.
C14_GroupsOfOneKind ==
    Decomposed =>
        \A r \in BalanceRanks : result[r].returned =>
            \A g \in 1..Len(result[r].groups) :
                \A i \in 1..Len(result[r].groups[g].gids) :
                    get_cell_kind(call.rec, result[r].groups[g].gids[i]) = result[r].groups[g].kind

\* partition_load_balance has returned to a single rank without GPU, with a
\* group size hint above 1, a decomposition of four cells of both kinds in
\* two groups, one of which holds a cell without gap junctions and two cells
\* joined by a gap junction.
C14_Witness ==
    /\ Balanced
    /\ call.num_domains = 1
    /\ call.rec.num_cells = 4
    /\ call.hint.cpu_group_size = MaxGroupSize
    /\ ~call.gpu_avail
    /\ \E a, b \in BalanceCells : call.rec.kind[a] # call.rec.kind[b]
    /\ Cardinality(call.rec.gj) = 1
    /\ result[0].returned
    /\ Len(result[0].groups) = 2
    /\ \E g \in 1..2 : Len(result[0].groups[g].gids) = 3

\* Some gap junction component of the recipe holds cells of different kinds.
MixedComponent ==
    \E a \in BalanceCells : \E b \in Component(call.rec, {a}) :
        call.rec.kind[a] # call.rec.kind[b]

\* C15: when a gap junction component of the recipe holds two cells of
\* different kinds, partition_load_balance fails with an error (on the rank
\* that owns the component) and returns a decomposition on no rank.
C15_MixedKindsFail ==
    (Balanced /\ MixedComponent) =>
        /\ \E r \in BalanceRanks : result[r].error = "arbor_internal_error"
        /\ \A r \in BalanceRanks : ~result[r].returned

\* On two ranks the load balancer has come to an end for four cells where
\* cell 1 of rank 0 is joined to cell 2 of another kind in the block of rank
\* 1: rank 0 has thrown, and rank 1, which has no error of its own, has not
\* returned.
C15_Witness ==
    /\ Balanced
    /\ call.num_domains = 2
    /\ call.rec.num_cells = 4
    /\ call.rec.gj = {{1, 2}}
    /\ call.rec.kind[1] # call.rec.kind[2]
    /\ result[0].error = "arbor_internal_error"
    /\ result[1].error = ""
    /\ ~result[1].returned

\* ------------------------------------------- the block rule on its own
\* The divisions of the blocks are computed for up to MaxBlockCells cells
\* and up to MaxBlockDomains ranks, by partition_load_balance or by the
\* older domain_decomposition.
BlockInit ==
    /\ DriverUnused
    /\ object = NoObject
    /\ \E fn \in {"gid_part", "gid_part_"} :
          \E n \in 0..MaxBlockCells : \E nd \in 1..MaxBlockDomains :
             call = [fn |-> fn, num_global_cells |-> n, num_domains |-> nd]
    /\ result = NoCall

\* The global load balance of partition_load_balance.
GlobalBalance ==
    /\ call # NoCall
    /\ call.fn = "gid_part"
    /\ result = NoCall
    /\ result' = gid_divisions(call.num_global_cells, call.num_domains)
    /\ UNCHANGED <<setup, driver, locals, outputs, history, call, object>>

\* The global load balance of the older domain_decomposition.
FirstCells ==
    /\ call # NoCall
    /\ call.fn = "gid_part_"
    /\ result = NoCall
    /\ result' = gid_part_(call.num_global_cells, call.num_domains)
    /\ UNCHANGED <<setup, driver, locals, outputs, history, call, object>>

BlockNext == GlobalBalance \/ FirstCells

BlockSpec == BlockInit /\ [][BlockNext]_vars

\* The divisions of the blocks have been computed.
Divided == call # NoCall /\ call.fn \in {"gid_part", "gid_part_"} /\ result # NoCall

\* C16: for N cells and R ranks the block of rank r is [p[r], p[r+1]) for
\* divisions p[0] = 0 <= p[1] <= ... <= p[R] = N, so that the blocks are
\* contiguous, disjoint, ordered by rank and cover [0, N), and every block
\* has floor(N/R) or ceil(N/R) cells.
C16_BlocksBalanced ==
    Divided =>
        LET N == call.num_global_cells
            R == call.num_domains
        IN  /\ Len(result) = R + 1
            /\ result[1] = 0
            /\ result[R + 1] = N
            /\ \A r \in 1..R :
                  /\ result[r] <= result[r + 1]
                  /\ result[r + 1] - result[r] \in {N \div R, (N + R - 1) \div R}

\* ------------------------------------------------ the dry-run transports
\* A spike whose source gid is not shifted.
same_spike(s, by) == s

\* gathered_spikes[j].source.gid += by
shift_spike(s, by) == [s EXCEPT !.source = <<@[1] + by, @[2]>>]

\* dry_run_context_impl::gather_spikes: num_ranks_ copies of the local
\* spikes, the gids of copy i shifted by num_cells_per_tile_ * i, and the
\* partition i * local_size.
dry_run_gather_spikes(local_spikes, num_ranks_, num_cells_per_tile_) ==
    LET local_size == Len(local_spikes)
        copies     == Concat([i \in 1..num_ranks_ |-> local_spikes])
    IN  [values    |-> [j \in 1..Len(copies) |->
                           shift_spike(copies[j], num_cells_per_tile_ * ((j - 1) \div local_size))],
         partition |-> [i \in 1..(num_ranks_ + 1) |-> (i - 1) * local_size]]

\* dry_run_context_impl::gather_gids
dry_run_gather_gids(gids, num_ranks_, num_cells_per_tile_) ==
    LET local_size == Len(gids)
        copies     == Concat([i \in 1..num_ranks_ |-> gids])
    IN  [values    |-> [j \in 1..Len(copies) |->
                           copies[j] + num_cells_per_tile_ * ((j - 1) \div local_size)],
         partition |-> [i \in 1..(num_ranks_ + 1) |-> (i - 1) * local_size]]

\* dryrun_global_policy::gather_spikes: global_spikes[first_spike + i] is
\* local spike i with its source shifted by first_cell; partition is
\* constructed with size() + 1 elements and never written.
dryrun_policy_gather_spikes(local_spikes, size, dryrun_num_local_cells) ==
    LET num_spikes_local  == Len(local_spikes)
        num_spikes_global == size * num_spikes_local
    IN  [values    |-> [p \in 1..num_spikes_global |->
                           shift_spike(local_spikes[((p - 1) % num_spikes_local) + 1],
                                       ((p - 1) \div num_spikes_local) * dryrun_num_local_cells)],
         partition |-> [i \in 1..(size + 1) |-> 0]]

\* dry_run_context_impl::gather_labeled_range. gids is empty when
\* std::transform writes the shifted gids through gids.begin(), which is
\* undefined for a non-empty local gid list: either the writes land in the
\* reserved storage and the vector stays empty, or the program is aborted
\* (outcome "abort"). labels, ranges and sorted_partitions are appended to.
gather_labeled_range(local_ranges, num_ranks_, num_cells_per_tile_, outcome) ==
    IF outcome = "abort" /\ local_ranges.gids # <<>>
    THEN [returned |-> FALSE]
    ELSE [returned   |-> TRUE,
          gids       |-> <<>>,
          labels     |-> Concat([i \in 1..num_ranks_ |-> local_ranges.labels]),
          ranges     |-> Concat([i \in 1..num_ranks_ |-> local_ranges.ranges]),
          partition  |-> [i \in 1..(num_ranks_ + 1) |-> (i - 1) * Len(local_ranges.gids)]]

\* ---------------------------------------------- the gathers on their own
\* The spikes handed to a gather: up to MaxGathered of these.
SpikePool ==
    { [source |-> <<0, 0>>, time |-> 0],
      [source |-> <<0, 0>>, time |-> 1],
      [source |-> <<1, 0>>, time |-> 0] }

LocalSpikes == UNION { [1..n -> SpikePool] : n \in 0..MaxGathered }

\* The sorted gid lists of up to MaxGathered local cells.
LocalGids == { SortedSeq(S) : S \in {x \in SUBSET (0..(MaxGathered - 1)) : TRUE} }

\* The labeled ranges of the local cells: one label and one range a cell.
LocalRanges ==
    UNION { { [gids   |-> g,
               labels |-> l,
               ranges |-> [k \in 1..Len(g) |-> [begin |-> 0, end |-> 1]]] :
                 l \in [1..Len(g) -> {"a", "b"}] } :
            g \in LocalGids }

\* A gather is called: on a dry-run transport of up to MaxTiles ranks with
\* up to MaxTileCells cells per tile, or on the ranks of a multi-rank
\* transport.
GatherInit ==
    /\ DriverUnused
    /\ object = NoObject
    /\ \/ \E fn \in {"dry_run_context::gather_spikes", "dryrun_global_policy::gather_spikes"} :
             \E n \in 1..MaxTiles : \E c \in 1..MaxTileCells : \E l \in LocalSpikes :
                call = [fn |-> fn, num_ranks |-> n, cells_per_tile |-> c, local |-> l]
       \/ \E n \in 1..MaxTiles : \E c \in 1..MaxTileCells : \E l \in LocalGids :
             call = [fn |-> "dry_run_context::gather_gids",
                     num_ranks |-> n, cells_per_tile |-> c, local |-> l]
       \/ \E n \in 1..MaxTiles : \E c \in 1..MaxTileCells : \E l \in LocalRanges :
             call = [fn |-> "dry_run_context::gather_labeled_range",
                     num_ranks |-> n, cells_per_tile |-> c, local |-> l]
       \/ \E n \in 1..MaxGatherRanks : \E l \in [0..(n - 1) -> LocalSpikes] :
             call = [fn |-> "mpi::gather_all_with_partition", num_ranks |-> n, local |-> l]
    /\ result = NoCall

Calling(fn) == call # NoCall /\ call.fn = fn /\ result = NoCall

\* The gathers of the dry-run transports return to the one rank there is.
GatherSpikesDryRun ==
    /\ Calling("dry_run_context::gather_spikes")
    /\ result' = [r \in {0} |-> dry_run_gather_spikes(call.local, call.num_ranks, call.cells_per_tile)]
    /\ UNCHANGED <<setup, driver, locals, outputs, history, call, object>>

GatherGidsDryRun ==
    /\ Calling("dry_run_context::gather_gids")
    /\ result' = [r \in {0} |-> dry_run_gather_gids(call.local, call.num_ranks, call.cells_per_tile)]
    /\ UNCHANGED <<setup, driver, locals, outputs, history, call, object>>

GatherSpikesDryRunPolicy ==
    /\ Calling("dryrun_global_policy::gather_spikes")
    /\ result' = [r \in {0} |->
                     dryrun_policy_gather_spikes(call.local, call.num_ranks, call.cells_per_tile)]
    /\ UNCHANGED <<setup, driver, locals, outputs, history, call, object>>

GatherLabeledRange ==
    /\ Calling("dry_run_context::gather_labeled_range")
    /\ \E outcome \in {"size unchanged", "abort"} :
          result' = [r \in {0} |->
                        gather_labeled_range(call.local, call.num_ranks, call.cells_per_tile, outcome)]
    /\ UNCHANGED <<setup, driver, locals, outputs, history, call, object>>

\* The gather of the multi-rank transport returns to every rank.
GatherSpikesMpi ==
    /\ Calling("mpi::gather_all_with_partition")
    /\ result' = [r \in 0..(call.num_ranks - 1) |->
                     gather_all_with_partition(call.local, [num_domains |-> call.num_ranks])]
    /\ UNCHANGED <<setup, driver, locals, outputs, history, call, object>>

GatherNext ==
    \/ GatherSpikesDryRun
    \/ GatherGidsDryRun
    \/ GatherSpikesDryRunPolicy
    \/ GatherLabeledRange
    \/ GatherSpikesMpi

GatherSpec == GatherInit /\ [][GatherNext]_vars

Called(fns) == call # NoCall /\ call.fn \in fns /\ result # NoCall

\* C17: on a dry-run transport of size N with C cells per tile, gather_spikes
\* (of either dry-run implementation) and gather_gids return N * L entries
\* for L local entries, entry i * L + j being local entry j with its gid
\* increased by i * C.
C17_DryRunReplicates ==
    /\ Called({"dry_run_context::gather_spikes", "dryrun_global_policy::gather_spikes"}) =>
          LET L == Len(call.local)
          IN  /\ Len(result[0].values) = call.num_ranks * L
              /\ \A i \in 0..(call.num_ranks - 1) : \A j \in 0..(L - 1) :
                    /\ result[0].values[i * L + j + 1].source
                          = <<call.local[j + 1].source[1] + i * call.cells_per_tile,
                              call.local[j + 1].source[2]>>
                    /\ result[0].values[i * L + j + 1].time = call.local[j + 1].time
    /\ Called({"dry_run_context::gather_gids"}) =>
          LET L == Len(call.local)
          IN  /\ Len(result[0].values) = call.num_ranks * L
              /\ \A i \in 0..(call.num_ranks - 1) : \A j \in 0..(L - 1) :
                    result[0].values[i * L + j + 1] = call.local[j + 1] + i * call.cells_per_tile

\* gather_spikes of the dry-run context has returned six spikes for two
\* local spikes on three ranks of two cells.
C17_Witness ==
    /\ Called({"dry_run_context::gather_spikes"})
    /\ call.num_ranks = 3
    /\ call.cells_per_tile = 2
    /\ Len(call.local) = 2
    /\ call.local[1] # call.local[2]
    /\ Len(result[0].values) = 6
    /\ result[0].values[6].source[1] = call.local[2].source[1] + 4

\* The spikes rank r contributes to a gather of spikes: what rank r handed
\* in on a multi-rank transport, and on a dry-run transport the local
\* spikes as replicated for rank r.
Contribution(r) ==
    IF call.fn = "mpi::gather_all_with_partition" THEN call.local[r]
    ELSE [j \in 1..Len(call.local) |->
             [source |-> <<call.local[j].source[1] + r * call.cells_per_tile,
                           call.local[j].source[2]>>,
              time   |-> call.local[j].time]]

\* C18: on every transport (the multi-rank one and both dry-run
\* implementations) gather_spikes returns a partition of N_ranks + 1
\* non-decreasing offsets, the first 0 and the last the size of the returned
\* buffer, and the entries from partition[r] up to partition[r+1] are the
\* spikes contributed by rank r, in the order rank r supplied them.
C18_PartitionCutsSlices ==
    Called({"mpi::gather_all_with_partition", "dry_run_context::gather_spikes",
            "dryrun_global_policy::gather_spikes"}) =>
        \A k \in DOMAIN result :
            LET gv == result[k]
                n  == call.num_ranks
            IN  /\ Len(gv.partition) = n + 1
                /\ gv.partition[1] = 0
                /\ gv.partition[n + 1] = Len(gv.values)
                /\ \A r \in 0..(n - 1) :
                      /\ gv.partition[r + 1] <= gv.partition[r + 2]
                      /\ SubSeq(gv.values, gv.partition[r + 1] + 1, gv.partition[r + 2])
                            = Contribution(r)

\* C19: on a dry-run transport of size N with C cells per tile,
\* gather_labeled_range returns N copies of the local gids, labels and
\* ranges, the gids of copy i increased by i * C, and the partition offsets
\* 0, L, 2L, ..., N * L for L local gids.
C19_LabeledRangesReplicated ==
    Called({"dry_run_context::gather_labeled_range"}) =>
        LET L  == Len(call.local.gids)
            n  == call.num_ranks
            lr == result[0]
        IN  /\ lr.returned
            /\ Len(lr.gids) = n * L
            /\ \A i \in 0..(n - 1) : \A j \in 0..(L - 1) :
                  /\ lr.gids[i * L + j + 1] = call.local.gids[j + 1] + i * call.cells_per_tile
                  /\ lr.labels[i * L + j + 1] = call.local.labels[j + 1]
                  /\ lr.ranges[i * L + j + 1] = call.local.ranges[j + 1]
            /\ Len(lr.labels) = n * Len(call.local.labels)
            /\ Len(lr.ranges) = n * Len(call.local.ranges)
            /\ lr.partition = [i \in 1..(n + 1) |-> (i - 1) * L]

\* ------------------------------------- construction from a recipe as given
\* Candidate connections of a recipe nothing is known about: consistent
\* ones, one with a negative delay, one whose source is no cell.
AnyConnPool == <<
    [source |-> <<0, 0>>, dest |-> <<1, 0>>, weight |-> 2, delay |-> 2],
    [source |-> <<2, 0>>, dest |-> <<0, 0>>, weight |-> 2, delay |-> 4],
    [source |-> <<1, 0>>, dest |-> <<2, 0>>, weight |-> 2, delay |-> -2],
    [source |-> <<num_cells, 0>>, dest |-> <<2, 0>>, weight |-> 2, delay |-> 2],
    [source |-> <<num_cells + 4, 0>>, dest |-> <<0, 0>>, weight |-> 2, delay |-> 2] >>

\* dom_dec.gid_domain(gid) in the constructor of the communicator:
\* partition_gid_domain returns -1 for a gid that no rank holds.
source_domain(dec, gid) ==
    IF \E r \in RanksOf(dec) : gid \in Range(local_gids(dec, r))
    THEN gid_domain(dec, gid)
    ELSE -1

\* communicator::communicator on rank r. No delay is looked at. With a
\* source that no rank holds, src_counts[src]++ and offsets[src_domains[pos]]
\* access the vectors at index unsigned(-1): the process is killed
\* (outcome "killed"), or the accesses land in other memory and the
\* connection stays out of every partition (outcome "out of bounds").
communicator_construction(rec, dec, r, outcome) ==
    LET all     == local_connections(rec, dec, r)
        known   == SelectSeq(all, LAMBDA c : source_domain(dec, c.source[1]) # -1)
        from(d) == SelectSeq(known, LAMBDA c : source_domain(dec, c.source[1]) = d)
        parts   == [d \in 1..dec.num_domains |-> sort_connections(from(d - 1))]
    IN  IF known # all /\ outcome = "killed"
        THEN [constructed |-> FALSE, error |-> ""]
        ELSE [constructed     |-> TRUE, error |-> "",
              connections     |-> Concat(parts),
              connection_part |-> make_index([d \in 1..dec.num_domains |-> Len(parts[d])])]

\* The recipe of the call as the load balancer sees it, and the recipes
\* called with: up to MaxConns connections of the pool.
AnyRecipes ==
    { [conns |-> PickSeq(AnyConnPool, c), stim |-> {}] :
        c \in {x \in SUBSET (1..Len(AnyConnPool)) : Cardinality(x) <= MaxConns} }

ConstructInit ==
    /\ DriverUnused
    /\ object = NoObject
    /\ result = NoCall
    /\ \E rec \in AnyRecipes : \E dec \in Decomps :
          call = [fn |-> "model::model", rec |-> rec, dec |-> dec]

\* model::model: the communicator of every rank is constructed.
Construct ==
    /\ Calling("model::model")
    /\ \E outcome \in {"killed", "out of bounds"} :
          result' = [comm |-> [r \in RanksOf(call.dec) |->
                                  communicator_construction(call.rec, call.dec, r, outcome)],
                     run  |-> FALSE,
                     t_interval |-> 0]
    /\ UNCHANGED <<setup, driver, locals, outputs, history, call, object>>

\* model::run is called on the driver that was constructed on every rank:
\* t_interval = communicator_.min_delay()/2.
ReachRun ==
    /\ call # NoCall /\ call.fn = "model::model" /\ result # NoCall
    /\ ~result.run
    /\ \A r \in RanksOf(call.dec) : result.comm[r].constructed
    /\ result' = [result EXCEPT !.run = TRUE,
                                !.t_interval = half_min_delay(min_delay(result.comm, call.dec))]
    /\ UNCHANGED <<setup, driver, locals, outputs, history, call, object>>

ConstructNext == Construct \/ ReachRun

ConstructSpec == ConstructInit /\ [][ConstructNext]_vars

Inconsistent(rec, n) ==
    \E i \in 1..Len(rec.conns) :
        rec.conns[i].delay < 0 \/ rec.conns[i].source[1] \notin 0..(n - 1)

\* C21: a recipe with a connection of negative delay or with a source gid
\* outside [0, N_cells) is rejected with an error during construction, and
\* run() is never reached with it.
C21_InconsistentRecipeRejected ==
    (call # NoCall /\ call.fn = "model::model" /\ result # NoCall
        /\ Inconsistent(call.rec, num_cells)) =>
        /\ ~result.run
        /\ \E r \in RanksOf(call.dec) :
              ~result.comm[r].constructed /\ result.comm[r].error # ""

\* --------------------------------------------- the multi-rank transport
\* What an MPI call reports.
MpiCodes == {"MPI_SUCCESS", "MPI_ERR_OTHER"}

\* handle_mpi_error(msg, code): throws mpi_error for a code other than
\* MPI_SUCCESS.
handle_mpi_error(code) == IF code # "MPI_SUCCESS" THEN "mpi_error" ELSE ""

raise(error) == [returned |-> FALSE, error |-> error]
return(value) == [returned |-> TRUE, error |-> "", value |-> value]

\* mpi::gather_all_with_partition on one rank: MPI_Allgather of the counts
\* in gather_all, then MPI_Allgatherv, each under handle_mpi_error.
mpi_gather_all_with_partition(send, num_ranks, codes) ==
    IF handle_mpi_error(codes[1]) # "" THEN raise(handle_mpi_error(codes[1]))
    ELSE IF handle_mpi_error(codes[2]) # "" THEN raise(handle_mpi_error(codes[2]))
    ELSE return(gather_all_with_partition(send, [num_domains |-> num_ranks]))

\* mpi::gather(value, root, comm) on rank: MPI_Gather under
\* handle_mpi_error; the buffer has size(comm) entries on the root and none
\* elsewhere.
mpi_gather(send, num_ranks, rank, root, codes) ==
    IF handle_mpi_error(codes[1]) # "" THEN raise(handle_mpi_error(codes[1]))
    ELSE return(IF rank = root THEN [i \in 1..num_ranks |-> send[i - 1]] ELSE <<>>)

\* MPI_MIN, MPI_MAX and MPI_SUM over the values of the ranks.
RECURSIVE mpi_op(_, _)
mpi_op(op, vals) ==
    IF Len(vals) = 1 THEN vals[1]
    ELSE LET rest == mpi_op(op, Tail(vals))
         IN  CASE op = "MPI_MIN" -> Min2(vals[1], rest)
               [] op = "MPI_MAX" -> IF vals[1] > rest THEN vals[1] ELSE rest
               [] op = "MPI_SUM" -> vals[1] + rest

\* mpi::reduce(value, op, comm): MPI_Allreduce, whose code is dropped, then
\* return result. result is not initialised: after a failed call it holds
\* what MPI_Allreduce left in it, left_in_result.
mpi_reduce(send, num_ranks, op, codes, left_in_result) ==
    IF codes[1] = "MPI_SUCCESS"
    THEN return(mpi_op(op, [i \in 1..num_ranks |-> send[i - 1]]))
    ELSE return(left_in_result)

\* mpi::barrier(comm): MPI_Barrier under handle_mpi_error.
mpi_barrier(codes) ==
    IF handle_mpi_error(codes[1]) # "" THEN raise(handle_mpi_error(codes[1]))
    ELSE return(<<>>)

\* The calls of the collectives on rank `rank` of up to MaxGatherRanks
\* ranks: what every rank sends, and what each MPI call made reports.
ShortSpikeLists == {l \in LocalSpikes : Len(l) <= 1}

TransportInit ==
    /\ DriverUnused
    /\ object = NoObject
    /\ result = NoCall
    /\ \E n \in 1..MaxGatherRanks : \E rank \in 0..(n - 1) :
          \/ \E l \in [0..(n - 1) -> ShortSpikeLists] : \E codes \in [1..2 -> MpiCodes] :
                call = [fn |-> "mpi_context::gather_spikes", num_ranks |-> n, rank |-> rank,
                        send |-> l, codes |-> codes]
          \/ \E l \in [0..(n - 1) -> LocalGids] : \E codes \in [1..2 -> MpiCodes] :
                call = [fn |-> "mpi_context::gather_gids", num_ranks |-> n, rank |-> rank,
                        send |-> l, codes |-> codes]
          \/ \E l \in [0..(n - 1) -> 0..MaxReduced] : \E codes \in [1..1 -> MpiCodes] :
                \/ \E root \in 0..(n - 1) :
                      call = [fn |-> "mpi_context::gather", num_ranks |-> n, rank |-> rank,
                              send |-> l, codes |-> codes, root |-> root]
                \/ \E fn \in {"mpi_context::min", "mpi_context::max", "mpi_context::sum"} :
                      call = [fn |-> fn, num_ranks |-> n, rank |-> rank,
                              send |-> l, codes |-> codes]
                \/ call = [fn |-> "mpi_context::barrier", num_ranks |-> n, rank |-> rank,
                           send |-> l, codes |-> codes]

GatherSpikes ==
    /\ Calling("mpi_context::gather_spikes")
    /\ result' = mpi_gather_all_with_partition(call.send, call.num_ranks, call.codes)
    /\ UNCHANGED <<setup, driver, locals, outputs, history, call, object>>

GatherGids ==
    /\ Calling("mpi_context::gather_gids")
    /\ result' = mpi_gather_all_with_partition(call.send, call.num_ranks, call.codes)
    /\ UNCHANGED <<setup, driver, locals, outputs, history, call, object>>

Gather ==
    /\ Calling("mpi_context::gather")
    /\ result' = mpi_gather(call.send, call.num_ranks, call.rank, call.root, call.codes)
    /\ UNCHANGED <<setup, driver, locals, outputs, history, call, object>>

Reduce(fn, op) ==
    /\ Calling(fn)
    /\ \E left_in_result \in 0..MaxReduced :
          result' = mpi_reduce(call.send, call.num_ranks, op, call.codes, left_in_result)
    /\ UNCHANGED <<setup, driver, locals, outputs, history, call, object>>

Barrier ==
    /\ Calling("mpi_context::barrier")
    /\ result' = mpi_barrier(call.codes)
    /\ UNCHANGED <<setup, driver, locals, outputs, history, call, object>>

TransportNext ==
    \/ GatherSpikes
    \/ GatherGids
    \/ Gather
    \/ Reduce("mpi_context::min", "MPI_MIN")
    \/ Reduce("mpi_context::max", "MPI_MAX")
    \/ Reduce("mpi_context::sum", "MPI_SUM")
    \/ Barrier

TransportSpec == TransportInit /\ [][TransportNext]_vars

Collectives ==
    {"mpi_context::gather_spikes", "mpi_context::gather_gids", "mpi_context::gather",
     "mpi_context::min", "mpi_context::max", "mpi_context::sum", "mpi_context::barrier"}

\* C22: a collective of the multi-rank transport in which an MPI call
\* reports an error code raises mpi_error and returns no value.
C22_FailedCollectiveRaises ==
    (Called(Collectives) /\ \E i \in DOMAIN call.codes : call.codes[i] # "MPI_SUCCESS") =>
        ~result.returned /\ result.error = "mpi_error"

\* ------------------------------------------------------ sampler registry
\* The cell groups of the driver the samplers are attached to.
SamplerGroups == 1..MaxSamplerGroups

\* util::handle_set: handles are dense integers; a released handle is
\* handed out again before a new one is made.
handle_set_acquire(hs) ==
    IF hs.returned = <<>>
    THEN [handle |-> hs.top, set |-> [hs EXCEPT !.top = @ + 1]]
    ELSE [handle |-> hs.returned[Len(hs.returned)],
          set    |-> [hs EXCEPT !.returned = SubSeq(@, 1, Len(@) - 1)]]

handle_set_release(hs, h) ==
    IF h + 1 = hs.top THEN [hs EXCEPT !.top = @ - 1]
    ELSE [hs EXCEPT !.returned = Append(@, h)]

\* cell_group::add_sampler and cell_group::remove_sampler: the association
\* of the handle is stored where the predicate selects a probe of the
\* group, and erased where there is one.
group_add_sampler(assoc, h, selected) == IF selected THEN assoc \cup {h} ELSE assoc

group_remove_sampler(assoc, h) == assoc \ {h}

\* The driver after construction: no handle acquired, no sampler attached.
\* live holds the handles add_sampler returned that were not removed since.
SamplerInit ==
    /\ DriverUnused
    /\ call = NoCall
    /\ result = NoCall
    /\ object = [sassoc_handles_ |-> [top |-> 0, returned |-> <<>>],
                 cell_groups_    |-> [g \in SamplerGroups |-> {}],
                 live            |-> {},
                 calls           |-> 0]

\* model::add_sampler with a predicate that selects probes of the groups in
\* probed.
AddSampler ==
    /\ object.calls < MaxSamplerCalls
    /\ \E probed \in SUBSET SamplerGroups :
          LET got == handle_set_acquire(object.sassoc_handles_)
          IN  /\ call' = [fn |-> "model::add_sampler", probed |-> probed, n |-> object.calls + 1]
              /\ result' = [error |-> "", handle |-> got.handle]
              /\ object' = [sassoc_handles_ |-> got.set,
                            cell_groups_    |-> [g \in SamplerGroups |->
                                group_add_sampler(object.cell_groups_[g], got.handle, g \in probed)],
                            live            |-> object.live \cup {got.handle},
                            calls           |-> object.calls + 1]
    /\ UNCHANGED <<setup, driver, locals, outputs, history>>

\* model::remove_sampler(h): every group removes h, then the handle is
\* released.
RemoveSampler ==
    /\ object.calls < MaxSamplerCalls
    /\ \E h \in 0..MaxSamplerCalls :
          /\ call' = [fn |-> "model::remove_sampler", h |-> h, n |-> object.calls + 1]
          /\ result' = [error |-> ""]
          /\ object' = [sassoc_handles_ |-> handle_set_release(object.sassoc_handles_, h),
                        cell_groups_    |-> [g \in SamplerGroups |->
                                                group_remove_sampler(object.cell_groups_[g], h)],
                        live            |-> object.live \ {h},
                        calls           |-> object.calls + 1]
    /\ UNCHANGED <<setup, driver, locals, outputs, history>>

SamplerNext == AddSampler \/ RemoveSampler

SamplerSpec == SamplerInit /\ [][SamplerNext]_vars

\* C23: remove_sampler with a handle that add_sampler never returned, or
\* that was removed already, fails with a precondition error and changes
\* the sampler associations of no cell group.
C23_UnknownHandleRefused ==
    [][(call' # call /\ call'.fn = "model::remove_sampler" /\ call'.h \notin object.live) =>
          /\ result'.error = "precondition error"
          /\ object'.cell_groups_ = object.cell_groups_]_vars

\* ----------------------------------------------------- LIF cell group (GPU)
\* The description of the cells of the group. Times are ticks and voltages
\* multiples of a unit in which w/C_m is a whole number; tau_m is such that
\* the membrane potential decays to a half in a tick. Every cell has an
\* external Poisson input.
lif_cell ==
    [V_th |-> 4, E_L |-> 0, V_m |-> 0, t_ref |-> 1, C_m |-> 1, w_poiss |-> 1, d_poiss |-> 1]

\* exp_dist_(generator_[lid]) * lambda_[lid]: the draws of the generator
\* seeded in the constructor, by the number of draws made before.
poisson_interval(drawn) == 1 + (drawn % 2)

\* exp(-(event_time - t) / tau_m) applied to V_m.
decay(V, interval) == V \div Pow2(interval)

\* The state of the cells after the constructor: one sample_next_poisson
\* was made for each.
lif_constructed(n) ==
    [V_m                |-> [lid \in 1..n |-> lif_cell.V_m],
     last_time_updated_ |-> [lid \in 1..n |-> 0],
     next_poiss_time_   |-> [lid \in 1..n |-> poisson_interval(0)],
     generator_         |-> [lid \in 1..n |-> 1],
     cell_events_       |-> [lid \in 1..n |-> <<>>],
     spikes_            |-> <<>>]

\* next_event for one cell: c holds V_m, t, last_time_updated_,
\* next_poiss_time_, generator_, the event buffer of the cell from
\* cell_begin on, and the spikes. Returns the cell with the event taken, or
\* none.
lif_next_event(c, t_final) ==
    LET t_poiss  == c.next_poiss_time_ + lif_cell.d_poiss
        poiss_ev == [time |-> t_poiss, weight |-> lif_cell.w_poiss]
        poisson  == [found |-> TRUE, event |-> poiss_ev,
                     cell  |-> [c EXCEPT !.next_poiss_time_ = @ + poisson_interval(c.generator_),
                                         !.generator_ = @ + 1]]
        none     == [found |-> FALSE, cell |-> c]
    IN  IF c.buffer # <<>>
        THEN IF c.buffer[1].time < Min2(t_final, t_poiss)
             THEN [found |-> TRUE, event |-> c.buffer[1],
                   cell  |-> [c EXCEPT !.buffer = Tail(@)]]
             ELSE IF t_poiss < t_final THEN poisson ELSE none
        ELSE IF t_poiss < t_final THEN poisson ELSE none

\* The first loop of advance_kernel: the events before t are dropped.
RECURSIVE lif_skip(_)
lif_skip(c) ==
    LET next == lif_next_event(c, c.t)
    IN  IF next.found THEN lif_skip(next.cell) ELSE c

\* The second loop of advance_kernel: integration up to tfinal.
RECURSIVE lif_integrate(_, _, _)
lif_integrate(c, t_final, gid) ==
    LET next == lif_next_event(c, t_final)
        ev   == next.event
        n    == next.cell
        V    == decay(n.V_m, ev.time - n.t) + (ev.weight \div lif_cell.C_m)
        fire == V >= lif_cell.V_th
        t    == IF fire THEN ev.time + lif_cell.t_ref ELSE ev.time
    IN  IF ~next.found THEN c
        ELSE IF ev.time < n.t THEN lif_integrate(n, t_final, gid)
        ELSE lif_integrate(
                 [n EXCEPT !.V_m = IF fire THEN lif_cell.E_L ELSE V,
                           !.t = t,
                           !.last_time_updated_ = t,
                           !.spikes = IF fire
                                      THEN Append(@, [source |-> <<gid, 0>>, time |-> ev.time])
                                      ELSE @],
                 t_final, gid)

\* advance_kernel on the cell lid of the group g, with the event buffer
\* filled from the queues.
advance_kernel(g, buffers, t_final, lid) ==
    lif_integrate(
        lif_skip([V_m |-> g.V_m[lid], t |-> g.last_time_updated_[lid],
                  last_time_updated_ |-> g.last_time_updated_[lid],
                  next_poiss_time_ |-> g.next_poiss_time_[lid],
                  generator_ |-> g.generator_[lid],
                  buffer |-> buffers[lid], spikes |-> <<>>]),
        t_final, lid - 1)

\* advance_cell: the events before tfinal are popped from the queues of all
\* cells into the event buffer, and the kernel is run on all cells.
advance_cell(g, t_final) ==
    LET n        == Len(g.V_m)
        buffers  == [lid \in 1..n |-> SelectSeq(g.cell_events_[lid], LAMBDA e : e.time < t_final)]
        out(lid) == advance_kernel(g, buffers, t_final, lid)
    IN  [V_m                |-> [lid \in 1..n |-> out(lid).V_m],
         last_time_updated_ |-> [lid \in 1..n |-> out(lid).last_time_updated_],
         next_poiss_time_   |-> [lid \in 1..n |-> out(lid).next_poiss_time_],
         generator_         |-> [lid \in 1..n |-> out(lid).generator_],
         cell_events_       |-> [lid \in 1..n |->
                                    SelectSeq(g.cell_events_[lid], LAMBDA e : ~(e.time < t_final))],
         spikes_            |-> g.spikes_ \o Concat([lid \in 1..n |-> out(lid).spikes])]

\* lif_cell_group_gpu::advance: advance_cell once for every cell.
RECURSIVE lif_advance(_, _, _)
lif_advance(g, t_final, times) ==
    IF times = 0 THEN g ELSE lif_advance(advance_cell(g, t_final), t_final, times - 1)

\* lif_cell_group_gpu::reset
lif_reset(g) ==
    [g EXCEPT !.spikes_ = <<>>,
              !.cell_events_ = [lid \in DOMAIN g.cell_events_ |-> <<>>]]

\* The events the driver may deliver to a cell: (time, weight).
LifEvents == { [time |-> 0, weight |-> 2], [time |-> 1, weight |-> 4], [time |-> 2, weight |-> 2] }

LifInit ==
    /\ DriverUnused
    /\ call = NoCall
    /\ result = NoCall
    /\ \E n \in 1..MaxLifCells : object = [group |-> lif_constructed(n), calls |-> 0]

LifCall(fn, g) ==
    /\ call' = [fn |-> fn, n |-> object.calls + 1]
    /\ result' = <<>>
    /\ object' = [group |-> g, calls |-> object.calls + 1]
    /\ UNCHANGED <<setup, driver, locals, outputs, history>>

\* lif_cell_group_gpu::enqueue_events with one event: it is pushed on the
\* queue of its target, which is ordered by time.
LifEnqueue ==
    /\ object.calls < MaxLifCalls
    /\ \E lid \in DOMAIN object.group.V_m : \E e \in LifEvents :
          /\ \A i \in DOMAIN object.group.cell_events_[lid] :
                object.group.cell_events_[lid][i].time # e.time
          /\ LifCall("lif_cell_group_gpu::enqueue_events",
                 [object.group EXCEPT !.cell_events_[lid] =
                     SelectSeq(@, LAMBDA x : x.time < e.time) \o <<e>>
                         \o SelectSeq(@, LAMBDA x : x.time > e.time)])

LifAdvance ==
    /\ object.calls < MaxLifCalls
    /\ \E t_final \in 1..MaxT :
          LifCall("lif_cell_group_gpu::advance",
                  lif_advance(object.group, t_final, Len(object.group.V_m)))

LifReset ==
    /\ object.calls < MaxLifCalls
    /\ LifCall("lif_cell_group_gpu::reset", lif_reset(object.group))

LifNext == LifEnqueue \/ LifAdvance \/ LifReset

LifSpec == LifInit /\ [][LifNext]_vars

\* C24: after reset() the membrane voltages, the times of the last update,
\* the next times of the generated events and the event queues are as
\* right after construction, and the spike buffer is empty.
C24_ResetRestoresGroup ==
    (call # NoCall /\ call.fn = "lif_cell_group_gpu::reset") =>
        LET g == object.group
            c == lif_constructed(Len(g.V_m))
        IN  /\ g.V_m = c.V_m
            /\ g.last_time_updated_ = c.last_time_updated_
            /\ g.next_poiss_time_ = c.next_poiss_time_
            /\ g.cell_events_ = c.cell_events_
            /\ g.spikes_ = <<>>

\* ------------------------------------------- merge_events called on its own
\* Events of one lane: the same target, two of them at the same time.
LaneEvents ==
    { [target |-> <<0, 0>>, time |-> 1, weight |-> 2],
      [target |-> <<0, 0>>, time |-> 2, weight |-> 4],
      [target |-> <<0, 0>>, time |-> 2, weight |-> 2],
      [target |-> <<0, 0>>, time |-> 3, weight |-> 2] }

\* The lanes a merge can have left: up to MaxLane events ordered by time.
Lanes ==
    UNION { { l \in [1..n -> LaneEvents] :
                \A i \in 1..(n - 1) : l[i].time <= l[i + 1].time } : n \in 0..MaxLane }

\* The new events of a queue, in any order.
Queues == UNION { [1..n -> LaneEvents] : n \in 0..1 }

\* What the lane of the next bank holds before the merge: nothing or an
\* event of the epoch before.
StaleLanes == { <<>>, <<[target |-> <<0, 0>>, time |-> 0, weight |-> 2]>> }

\* The object is the lane of the two banks: lc of the current bank and lf of
\* the next one.
MergeInit ==
    /\ DriverUnused
    /\ result = NoCall
    /\ \E q \in Queues : \E lc \in Lanes : \E lf \in StaleLanes : \E t \in 0..(MaxT + 1) :
          /\ call = [fn |-> "model::merge_events", events |-> q, lc |-> lc, t_end |-> t]
          /\ object = [lc |-> lc, lf |-> lf]

\* model::merge_events: lf of the call.
MergeEvents ==
    /\ Calling("model::merge_events")
    /\ object' = [object EXCEPT !.lf = merge_events(call.events, object.lc, call.t_end)]
    /\ result' = [lf |-> object'.lf, again |-> FALSE, stale |-> object.lf]
    /\ UNCHANGED <<setup, driver, locals, outputs, history, call>>

\* model::merge_events with no new events on the lane the last merge left,
\* for the same end of the epoch: the banks have changed their parts.
MergeAgain ==
    /\ call # NoCall /\ call.fn = "model::merge_events" /\ result # NoCall
    /\ ~result.again
    /\ object' = [lc |-> object.lf, lf |-> merge_events(<<>>, object.lf, call.t_end)]
    /\ result' = [lf |-> object'.lf, again |-> TRUE, before |-> result.lf, stale |-> object.lc]
    /\ UNCHANGED <<setup, driver, locals, outputs, history, call>>

MergeNext == MergeEvents \/ MergeAgain

MergeSpec == MergeInit /\ [][MergeNext]_vars

\* C25: merging an empty list of new events leaves in the lane of the next
\* bank the events of the current lane whose time is at or after the end of
\* the epoch, in the order they had; merging an empty list once more, with
\* the same end of the epoch, leaves that lane as it is.
C25_EmptyMergeKeepsSuffix ==
    (Called({"model::merge_events"}) /\ call.events = <<>>) =>
        LET suffix == SelectSeq(call.lc, LAMBDA e : e.time >= call.t_end)
        IN  /\ ~result.again => result.lf = suffix
            /\ result.again => result.before = suffix /\ result.lf = suffix

\* An empty list was merged, twice, into a lane that has events before the
\* end of the epoch, one at it and one after it.
C25_Witness ==
    /\ Called({"model::merge_events"})
    /\ call.events = <<>>
    /\ result.again
    /\ \E i, j, k \in DOMAIN call.lc :
          /\ call.lc[i].time < call.t_end
          /\ call.lc[j].time = call.t_end
          /\ call.lc[k].time > call.t_end
    /\ Len(result.lf) = 2

\* ----------------------------------------------- thread private spike store
\* A slot that all threads share.
first_slot(thread) == 0

\* enumerable_thread_specific::local(): the slot of data the calling thread
\* uses, task_pool::get_current_thread().
local_slot(thread) == thread

\* The spikes in front of the buffer.
prepended(buffer, spikes) == spikes \o buffer

\* thread_private_spike_store::insert: the spikes go to the end of the
\* buffer of the calling thread.
inserted(buffer, spikes) == buffer \o spikes

\* thread_private_spike_store::gather: the buffers of all threads, one
\* after the other.
store_gather(buffers_) ==
    Concat([i \in 1..Cardinality(DOMAIN buffers_) |-> buffers_[i - 1]])

\* thread_private_spike_store::clear: every buffer is cleared.
store_clear(buffers_) == [t \in DOMAIN buffers_ |-> <<>>]

\* The spike lists the cell groups hand to insert.
InsertLists ==
    LET a == [source |-> <<0, 0>>, time |-> 0]
        b == [source |-> <<0, 0>>, time |-> 1]
        c == [source |-> <<1, 0>>, time |-> 0]
    IN  { <<a>>, <<b, c>>, <<c, a>> }

Idle == <<>>

\* A store on a pool of up to MaxThreads threads, and the tasks of a
\* parallel_for over up to MaxTasks cell groups in the queue of the pool.
\* log holds the inserts made since the last clear.
StoreInit ==
    /\ DriverUnused
    /\ call = NoCall
    /\ result = NoCall
    /\ \E nthreads \in 1..MaxThreads : \E n \in 1..MaxTasks : \E tasks \in [1..n -> InsertLists] :
          object = [buffers_ |-> [t \in 0..(nthreads - 1) |-> <<>>],
                    _tasks   |-> tasks,
                    running  |-> [t \in 0..(nthreads - 1) |-> Idle],
                    log      |-> <<>>]

Threads == DOMAIN object.buffers_

\* A thread of the pool takes the task at the front of the queue:
\* current_spikes().insert(group->spikes()) begins.
TakeTask(t) ==
    /\ object.running[t] = Idle
    /\ object._tasks # <<>>
    /\ object' = [object EXCEPT !._tasks = Tail(@),
                                !.running[t] = [spikes |-> Head(object._tasks), at |-> "local"]]
    /\ UNCHANGED <<setup, driver, locals, outputs, history, call, result>>

\* insert reads the end of the buffer of the thread.
InsertRead(t) ==
    /\ object.running[t] # Idle
    /\ object.running[t].at = "local"
    /\ object' = [object EXCEPT !.running[t] =
                     [spikes |-> @.spikes, at |-> "insert",
                      seen   |-> object.buffers_[local_slot(t)]]]
    /\ UNCHANGED <<setup, driver, locals, outputs, history, call, result>>

\* insert writes the buffer with the spikes behind what it read.
InsertWrite(t) ==
    /\ object.running[t] # Idle
    /\ object.running[t].at = "insert"
    /\ object' = [object EXCEPT
                     !.buffers_[local_slot(t)] = inserted(object.running[t].seen,
                                                          object.running[t].spikes),
                     !.running[t] = Idle,
                     !.log = Append(@, [thread |-> t, spikes |-> object.running[t].spikes])]
    /\ call' = [fn |-> "thread_private_spike_store::insert", thread |-> t]
    /\ result' = <<>>
    /\ UNCHANGED <<setup, driver, locals, outputs, history>>

Joined == \A t \in Threads : object.running[t] = Idle

\* After the join of the parallel_for: gather() and, on thread t, get().
StoreGather(t) ==
    /\ Joined
    /\ object._tasks = <<>>
    /\ call # NoCall /\ call.fn # "thread_private_spike_store::gather"
    /\ call' = [fn |-> "thread_private_spike_store::gather", thread |-> t]
    /\ result' = [gather |-> store_gather(object.buffers_),
                  get    |-> object.buffers_[local_slot(t)]]
    /\ UNCHANGED <<setup, driver, locals, outputs, history, object>>

\* clear() while no insert is running.
StoreClear ==
    /\ Joined
    /\ call # NoCall /\ call.fn = "thread_private_spike_store::insert"
    /\ call' = [fn |-> "thread_private_spike_store::clear"]
    /\ result' = <<>>
    /\ object' = [object EXCEPT !.buffers_ = store_clear(@), !.log = <<>>]
    /\ UNCHANGED <<setup, driver, locals, outputs, history>>

StoreNext ==
    \/ \E t \in Threads : TakeTask(t)
    \/ \E t \in Threads : InsertRead(t)
    \/ \E t \in Threads : InsertWrite(t)
    \/ \E t \in Threads : StoreGather(t)
    \/ StoreClear

StoreSpec == StoreInit /\ [][StoreNext]_vars

InsertedSpikes == Concat([i \in 1..Len(object.log) |-> object.log[i].spikes])

\* C26: after the join of the inserts made in parallel, gather() returns
\* the spikes of all lists inserted, each as often as it was inserted.
C26_ParallelInsertsAllGathered ==
    (call # NoCall /\ call.fn = "thread_private_spike_store::gather") =>
        BagOf(result.gather) = BagOf(InsertedSpikes)

\* MaxTasks lists were inserted by the tasks of the parallel_for, on more
\* than one thread, and gathered after the join.
C26_Witness ==
    /\ call # NoCall /\ call.fn = "thread_private_spike_store::gather"
    /\ \E i, j \in DOMAIN object.log : object.log[i].thread # object.log[j].thread
    /\ Len(object.log) = MaxTasks
    /\ Len(result.gather) > MaxTasks

\* C27: after inserts that all came from one caller, get() of that caller
\* and gather() return the inserted spikes in the order of insertion, those
\* of a later insert behind those of an earlier one; after clear() the
\* store is empty.
C27_InsertionOrderKept ==
    /\ (call # NoCall /\ call.fn = "thread_private_spike_store::gather"
           /\ \A i \in DOMAIN object.log : object.log[i].thread = call.thread) =>
          /\ result.get = InsertedSpikes
          /\ result.gather = InsertedSpikes
    /\ (call # NoCall /\ call.fn = "thread_private_spike_store::clear") =>
          /\ store_gather(object.buffers_) = <<>>
          /\ \A t \in Threads : object.buffers_[local_slot(t)] = <<>>

\* One thread of two made all inserts, of lists that differ, and gathers.
C27_Witness ==
    /\ call # NoCall /\ call.fn = "thread_private_spike_store::gather"
    /\ Cardinality(Threads) = 2
    /\ Len(object.log) >= 2
    /\ \A i \in DOMAIN object.log : object.log[i].thread = call.thread
    /\ object.log[1].spikes # object.log[2].spikes
    /\ Len(result.get) >= 3

\* --------------------------------------------------------- event generators
\* The first event on from index from that is after t.
until_and_at(evs, from, t) == PartitionPoint(evs, from, [e \in Range(evs) |-> e.time <= t])

\* std::lower_bound(lb, ub, t, event_time_less{}) on events_ from index
\* from (counted from 1): the first event that is not before t.
event_lower_bound(evs, from, t) == PartitionPoint(evs, from, [e \in Range(evs) |-> e.time < t])

\* explicit_generator::events(t0, t1): the view returned and the generator
\* left. start_index_ counts from 0.
explicit_generator_events(gen, t0, t1) ==
    LET lb == event_lower_bound(gen.events_, gen.start_index_ + 1, t0)
        ub == event_lower_bound(gen.events_, lb, t1)
    IN  [seq |-> SubSeq(gen.events_, lb, ub - 1),
         gen |-> [gen EXCEPT !.start_index_ = ub - 1]]

\* explicit_generator::reset
explicit_generator_reset(gen) == [gen EXCEPT !.start_index_ = 0]

\* explicit_generator::explicit_generator(events) and init(lids): the
\* events given, which are sorted, all for the one target of the cell.
explicit_generator(evs) == [events_ |-> evs, start_index_ |-> 0]

\* The labeled events a generator is made from: sorted by time, then by
\* weight.
GeneratorEvents ==
    { [target |-> 0, time |-> 0, weight |-> 1], [target |-> 0, time |-> 1, weight |-> 1],
      [target |-> 0, time |-> 1, weight |-> 2], [target |-> 0, time |-> 2, weight |-> 1] }

SortedEvents ==
    UNION { { l \in [1..n -> GeneratorEvents] :
                \A i \in 1..(n - 1) :
                    \/ l[i].time < l[i + 1].time
                    \/ l[i].time = l[i + 1].time /\ l[i].weight <= l[i + 1].weight } :
            n \in 0..MaxGenerated }

\* until is the end of the last interval asked for since construction or
\* reset: calls of events are monotonic in time.
GeneratorInit ==
    /\ DriverUnused
    /\ call = NoCall
    /\ result = NoCall
    /\ \E evs \in SortedEvents :
          object = [gen |-> explicit_generator(evs), until |-> 0, calls |-> 0]

\* event_generator::events(t0, t1)
GeneratorEventsCall ==
    /\ object.calls < MaxGeneratorCalls
    /\ \E t0 \in object.until..(MaxT + 1) : \E t1 \in t0..(MaxT + 1) :
          LET got == explicit_generator_events(object.gen, t0, t1)
          IN  /\ call' = [fn |-> "event_generator::events", t0 |-> t0, t1 |-> t1,
                          n |-> object.calls + 1]
              /\ result' = got.seq
              /\ object' = [gen |-> got.gen, until |-> t1, calls |-> object.calls + 1]
    /\ UNCHANGED <<setup, driver, locals, outputs, history>>

\* event_generator::reset()
GeneratorReset ==
    /\ object.calls < MaxGeneratorCalls
    /\ call' = [fn |-> "event_generator::reset", n |-> object.calls + 1]
    /\ result' = <<>>
    /\ object' = [gen |-> explicit_generator_reset(object.gen), until |-> 0,
                  calls |-> object.calls + 1]
    /\ UNCHANGED <<setup, driver, locals, outputs, history>>

GeneratorNext == GeneratorEventsCall \/ GeneratorReset

GeneratorSpec == GeneratorInit /\ [][GeneratorNext]_vars

records_as_given(records) == records

\* util::sort_by(records, id)
sort_by_id(records) == SortBy(records, [r \in Range(records) |-> <<r.id, 0>>])

\* The first loop of sort_and_validate_swc from record i on: seen holds the
\* ids of the records before.
RECURSIVE swc_first_pass(_, _, _)
swc_first_pass(records, i, seen) ==
    IF i > Len(records) THEN ""
    ELSE IF records[i].parent_id >= records[i].id THEN "swc_record_precedes_parent"
    ELSE IF records[i].id \in seen THEN "swc_duplicate_record_id"
    ELSE swc_first_pass(records, i + 1, seen \cup {records[i].id})

\* sort_and_validate_swc(records, mode) for records that are not empty:
\* the exception thrown, or the records returned.
sort_and_validate_swc(records, mode) ==
    LET first_id  == records[1].id
        first_tag == records[1].tag
        first     == swc_first_pass(records, 1, {})
        seen      == {records[i].id : i \in DOMAIN records}
        sorted    == sort_by_id(records)
        first_tag_match ==
            \E i \in DOMAIN sorted : sorted[i].parent_id = first_id /\ sorted[i].tag = first_tag
        orphan    == \E i \in DOMAIN sorted :
                        \/ i = 1 /\ sorted[i].parent_id # -1
                        \/ i > 1 /\ sorted[i].parent_id \notin seen
    IN  IF Len(records) < 2 THEN [error |-> "swc_spherical_soma"]
        ELSE IF first # "" THEN [error |-> first]
        ELSE IF orphan THEN [error |-> "swc_no_such_parent"]
        ELSE IF mode = "strict" /\ ~first_tag_match THEN [error |-> "swc_spherical_soma"]
        ELSE [error |-> "", records |-> sorted]

\* The SWC records of the calls: ids from 1 to MaxSwcId, tags 1 (soma) and
\* 3 (dendrite), parent ids from -1 to MaxSwcId.
SwcRecords ==
    { [id |-> id, tag |-> tag, parent_id |-> p] :
        id \in 1..MaxSwcId, tag \in {1, 3}, p \in ({-1} \cup 1..MaxSwcId) }

SwcInit ==
    /\ DriverUnused
    /\ object = NoObject
    /\ result = NoCall
    /\ \E n \in 1..MaxRecords : \E records \in [1..n -> SwcRecords] :
          \E mode \in {"relaxed", "strict"} :
              call = [fn |-> "parse_swc", records |-> records, mode |-> mode]

\* parse_swc(records, mode)
ParseSwc ==
    /\ Calling("parse_swc")
    /\ result' = sort_and_validate_swc(call.records, call.mode)
    /\ UNCHANGED <<setup, driver, locals, outputs, history, call, object>>

SwcNext == ParseSwc

SwcSpec == SwcInit /\ [][SwcNext]_vars

\* What the claim asks of a list of records.
SwcDistinct(R) == \A i, j \in DOMAIN R : R[i].id = R[j].id => i = j
SwcParentsBefore(R) == \A i \in DOMAIN R : R[i].parent_id < R[i].id
SwcParentsKnown(R) ==
    \A i \in DOMAIN R :
        IF \A j \in DOMAIN R : R[i].id <= R[j].id
        THEN R[i].parent_id = -1
        ELSE \E j \in DOMAIN R : R[j].id = R[i].parent_id
SwcNoSphere(R, mode) ==
    /\ Len(R) >= 2
    /\ mode = "strict" =>
          \E i \in DOMAIN R : R[i].parent_id = R[1].id /\ R[i].tag = R[1].tag

\* C29: parse_swc accepts the records exactly when the ids are distinct,
\* every parent id is smaller than the id, the record of the lowest id has
\* parent -1 and every other parent id is an id of the list, and there are
\* two records or more (in strict mode with a record that has the first
\* record as parent and its tag); the exception thrown names a condition
\* that does not hold; the records accepted are returned sorted by id.
C29_SwcAcceptedExactly ==
    Called({"parse_swc"}) =>
        LET R == call.records
        IN  /\ result.error = "" <=>
                  /\ SwcDistinct(R)
                  /\ SwcParentsBefore(R)
                  /\ SwcParentsKnown(R)
                  /\ SwcNoSphere(R, call.mode)
            /\ result.error = "swc_record_precedes_parent" => ~SwcParentsBefore(R)
            /\ result.error = "swc_duplicate_record_id" => ~SwcDistinct(R)
            /\ result.error = "swc_no_such_parent" => ~SwcParentsKnown(R)
            /\ result.error = "swc_spherical_soma" => ~SwcNoSphere(R, call.mode)
            /\ result.error = "" =>
                  /\ BagOf(result.records) = BagOf(R)
                  /\ \A i \in 1..(Len(R) - 1) : result.records[i].id < result.records[i + 1].id

\* Three records given out of the order of their ids were accepted in
\* strict mode.
C29_Witness ==
    /\ Called({"parse_swc"})
    /\ call.mode = "strict"
    /\ result.error = ""
    /\ Len(call.records) = 3
    /\ call.records[1].id > call.records[2].id
    /\ result.records # call.records

\* ------------------------------------------------------- load_swc_neuron
\* mnpos, the parent of a segment that has none: msize_t(-1), the index of no
\* segment.
mnpos == -1

\* The point of a sample: the samples lie on the z axis.
mpoint_of(r) == [x |-> 0, y |-> 0, z |-> r.z, radius |-> r.r]

\* segment_tree::append(parent, prox, dist, tag): the tree with the new
\* segment; its index is the number of segments before.
tree_append(tree, parent, prox, dist, tag) ==
    Append(tree, [parent |-> parent, prox |-> prox, dist |-> dist, tag |-> tag])

\* The loop of load_swc_neuron over the records from i on (i counts from 1,
\* the first record being the root): s holds soma_records, prev_tag,
\* prev_id, has_children and the exception thrown.
RECURSIVE swc_scan(_, _, _)
swc_scan(records, i, s) ==
    IF i > Len(records) \/ s.error # "" THEN s
    ELSE LET r      == records[i]
             soma   == r.tag = records[1].tag
             known  == \E j \in 1..i : records[j].id = r.parent_id
             parent == records[CHOOSE j \in 1..i : records[j].id = r.parent_id]
             somas  == IF soma THEN Append(s.soma_records, r) ELSE s.soma_records
         IN  IF soma /\ s.prev_tag # records[1].tag
             THEN [s EXCEPT !.error = "swc_non_consecutive_soma"]
             ELSE IF soma /\ r.parent_id # s.prev_id
             THEN [s EXCEPT !.error = "swc_non_serial_soma"]
             ELSE IF ~known THEN [s EXCEPT !.error = "bad_swc_data"]
             ELSE IF r.tag # 1 /\ parent.tag = 1 /\ r.parent_id # somas[Len(somas)].id
             THEN [s EXCEPT !.error = "swc_branchy_soma"]
             ELSE swc_scan(records, i + 1,
                      [soma_records |-> somas, prev_tag |-> r.tag, prev_id |-> r.id,
                       has_children |-> s.has_children \/ (r.tag # 1 /\ parent.tag = 1),
                       error        |-> ""])

\* The segments from soma sample i to soma sample to, one after the other,
\* the first with the given parent.
RECURSIVE soma_chain(_, _, _, _, _)
soma_chain(tree, somas, i, to, parent) ==
    IF i >= to THEN [tree |-> tree, parent |-> parent]
    ELSE soma_chain(tree_append(tree, parent, mpoint_of(somas[i]), mpoint_of(somas[i + 1]), 1),
                    somas, i + 1, to, Len(tree))

\* The index (from 0) of the soma segment that holds the midpoint, and the
\* length left on it.
RECURSIVE soma_mid(_, _, _)
soma_mid(lengths, idx, midlength) ==
    IF idx < Len(lengths) /\ midlength > lengths[idx + 1]
    THEN soma_mid(lengths, idx + 1, midlength - lengths[idx + 1])
    ELSE [idx |-> idx, midlength |-> midlength]

\* The construction of the soma: the tree and tree_index, or the tree that
\* is returned at once.
swc_soma(somas, has_children) ==
    LET p0      == mpoint_of(somas[1])
        below   == [p0 EXCEPT !.y = @ - p0.radius]
        above   == [p0 EXCEPT !.y = @ + p0.radius]
        lengths == [i \in 1..(Len(somas) - 1) |-> somas[i + 1].z - somas[i].z]
        mid     == soma_mid(lengths, 0, SumSeq(lengths) \div 2)
        r0      == somas[mid.idx + 1]
        r1      == somas[mid.idx + 2]
        len     == lengths[mid.idx + 1]
        mid_soma == [x |-> 0, y |-> 0,
                     z |-> r0.z + (mid.midlength * (r1.z - r0.z)) \div len,
                     radius |-> r0.r + (mid.midlength * (r1.r - r0.r)) \div len]
        front   == soma_chain(<<>>, somas, 1, mid.idx + 1, mnpos)
        soma_seg == Len(front.tree)
        half    == tree_append(front.tree, front.parent, mpoint_of(r0), mid_soma, 1)
        whole   == IF mid_soma # mpoint_of(r1)
                   THEN [tree   |-> tree_append(half, soma_seg, mid_soma, mpoint_of(r1), 1),
                         parent |-> soma_seg + 1]
                   ELSE [tree |-> half, parent |-> soma_seg]
    IN  IF Len(somas) = 1
        THEN IF ~has_children
             THEN [returned |-> TRUE, tree |-> tree_append(<<>>, mnpos, below, above, 1)]
             ELSE [returned   |-> FALSE,
                   tree       |-> tree_append(tree_append(<<>>, mnpos, below, p0, 1), 0, p0, above, 1),
                   tree_index |-> {<<somas[1].id, 0>>}]
        ELSE IF ~has_children
             THEN [returned |-> TRUE, tree |-> soma_chain(<<>>, somas, 1, Len(somas), mnpos).tree]
             ELSE [returned   |-> FALSE,
                   tree       |-> soma_chain(whole.tree, somas, mid.idx + 2, Len(somas),
                                             whole.parent).tree,
                   tree_index |-> {<<somas[Len(somas)].id, soma_seg>>}]

\* The loop that builds the branches off the soma, from record i on.
RECURSIVE swc_branches(_, _, _, _)
swc_branches(records, i, tree, tree_index) ==
    IF i > Len(records) THEN [error |-> "", tree |-> tree]
    ELSE LET r == records[i]
             prox == records[CHOOSE j \in DOMAIN records : records[j].id = r.parent_id]
             pseg == (CHOOSE e \in tree_index : e[1] = r.parent_id)[2]
         IN  IF r.tag = 1 THEN swc_branches(records, i + 1, tree, tree_index)
             ELSE IF ~\E e \in tree_index : e[1] = r.parent_id THEN [error |-> "bad_swc_data"]
             ELSE IF prox.tag = 1
             THEN swc_branches(records, i + 1, tree, tree_index \cup {<<r.id, pseg>>})
             ELSE swc_branches(records, i + 1,
                      tree_append(tree, pseg, mpoint_of(prox), mpoint_of(r), r.tag),
                      tree_index \cup {<<r.id, Len(tree)>>})

\* load_swc_neuron(records) for records that are not empty.
load_swc_neuron(records) ==
    LET scan == swc_scan(records, 2,
                    [soma_records |-> <<records[1]>>, prev_tag |-> records[1].tag,
                     prev_id |-> records[1].id, has_children |-> FALSE, error |-> ""])
        soma == swc_soma(scan.soma_records, scan.has_children)
    IN  IF records[1].tag # 1 THEN [error |-> "swc_no_soma"]
        ELSE IF scan.error # "" THEN [error |-> scan.error]
        ELSE IF soma.returned THEN [error |-> "", tree |-> soma.tree]
        ELSE swc_branches(records, 1, soma.tree, soma.tree_index)

\* The records of the calls: ids 1, 2, ... in this order, every parent an
\* earlier record or none, tags 1 (soma) and 3 (dendrite), the samples at growing z
\* with a radius of one or two units. A unit is a multiple of four, so that
\* the midpoints are whole numbers.
NeuronRecords(n) ==
    { recs \in [1..n -> [id : 1..n, tag : {1, 3}, z : {4 * i : i \in 1..n},
                         r : {4, 8}, parent_id : {-1} \cup 1..n]] :
        \A i \in 1..n :
            /\ recs[i].id = i
            /\ recs[i].z = 4 * i
            /\ i = 1 => recs[i].parent_id = -1
            /\ recs[i].parent_id < i }

NeuronInit ==
    /\ DriverUnused
    /\ object = NoObject
    /\ result = NoCall
    /\ \E n \in 1..MaxRecords : \E recs \in NeuronRecords(n) :
          call = [fn |-> "load_swc_neuron", records |-> recs]

LoadSwcNeuron ==
    /\ Calling("load_swc_neuron")
    /\ result' = load_swc_neuron(call.records)
    /\ UNCHANGED <<setup, driver, locals, outputs, history, call, object>>

NeuronNext == LoadSwcNeuron

NeuronSpec == NeuronInit /\ [][NeuronNext]_vars

SomaSamples == SelectSeq(call.records, LAMBDA r : r.tag = 1)

\* Two segments of the soma meet at point p.
MeetAt(tree, p) ==
    \E i, j \in DOMAIN tree :
        /\ tree[i].tag = 1 /\ tree[j].tag = 1
        /\ tree[j].parent = i - 1
        /\ tree[i].dist = p /\ tree[j].prox = p

\* C30: the tree load_swc_neuron returns for a soma of one sample has two
\* segments of tag 1 that meet at the sample, and for a soma of two samples
\* two segments of tag 1 that meet at the midpoint of the samples, with and
\* without anything attached to the soma.
C30_SomaOfTwoSegments ==
    (Called({"load_swc_neuron"}) /\ result.error = "" /\ Len(SomaSamples) <= 2) =>
        LET first == mpoint_of(SomaSamples[1])
            last  == mpoint_of(SomaSamples[Len(SomaSamples)])
            mid   == [x |-> 0, y |-> 0, z |-> (first.z + last.z) \div 2,
                      radius |-> (first.radius + last.radius) \div 2]
        IN  MeetAt(result.tree, mid)

\* ------------------------------------------ the two tasks of an epoch
\* The number of the epoch under way in this run(), counted from 1.
EpochNo == Len(epochs_log)

\* The spikes rank r emitted in epoch k of this run().
EmittedIn(r, k) ==
    LET on_rank == {s \in BagToSet(run_emitted) :
                       /\ s.source[1] \in Range(local_gids(decomp, r))
                       /\ epochs_log[k].t_begin <= s.time
                       /\ s.time < epochs_log[k].t_end}
    IN  [s \in on_rank |-> run_emitted[s]]

\* C31: in every epoch of a run() but the first, the exchange task gathers
\* exactly the spikes the groups inserted during the advance of the epoch
\* before, and the advance task reads exactly the lanes the exchange task of
\* the epoch before wrote; in no epoch does the exchange gather a spike of the
\* advance of the same epoch, nor the advance read a lane the exchange of the
\* same epoch wrote.
C31_TasksUseThePreviousEpoch ==
    (pc = "tasks" /\ ~clean) =>
        \A r \in Ranks :
            /\ exchanged =>
                  /\ \A k \in 1..Len(HandedIn(r)) : HandedIn(r)[k].time < LastEpoch.t_begin
                  /\ EpochNo >= 2 => BagOf(HandedIn(r)) = EmittedIn(r, EpochNo - 1)
            /\ \A i \in advanced[r] :
                  /\ handed[r][i] = subrange_view(event_lanes_[r][bank(LastEpoch.id)],
                                                  group_queue_range(decomp, r, i))
                  /\ EpochNo >= 2 =>
                        handed[r][i] = subrange_view(written.run[EpochNo - 1][r],
                                                     group_queue_range(decomp, r, i))

\* Both tasks of the second or a later epoch are complete: the exchange
\* gathered spikes, a group was handed events, and the exchange of this epoch
\* wrote other lanes than the exchange of the epoch before.
C31_Witness ==
    /\ pc = "tasks"
    /\ EpochNo >= 2
    /\ exchanged
    /\ \A r \in Ranks : advanced[r] = AllGroupsOf(r)
    /\ HandedIn(0) # <<>>
    /\ \E i \in AllGroupsOf(0) : Concat(handed[0][i]) # <<>>
    /\ written.run[EpochNo][0] # written.run[EpochNo - 1][0]

\* Sequence a is the beginning of sequence b.
IsPrefix(a, b) == Len(a) <= Len(b) /\ SubSeq(b, 1, Len(a)) = a

\* What the exchange task of an epoch touches: it leaves the bank of the
\* epoch and both spike buffers as they are, hands the read buffer to the
\* gather, and lane i of the other bank is written by the merge of queue i
\* and by no other merge.
ExchangeFootprint ==
    \A r \in Ranks :
        LET lc == event_lanes_[r][bank(epoch_[r].id)]
            lf == event_lanes_[r][bank(epoch_[r].id + 1)]
        IN  /\ event_lanes_'[r][bank(epoch_[r].id)] = lc
            /\ local_spikes_'[r] = local_spikes_[r]
            /\ HandedIn(r)' = previous_spikes(local_spikes_[r])
            /\ \A l \in 1..Len(lf) :
                  event_lanes_'[r][bank(epoch_[r].id + 1)][l] =
                      IF l \in AllGroupsOf(r)
                      THEN merge_events(events'[r][l], lc[l], epoch_[r].tfinal)
                      ELSE lf[l]

\* What the advance of group i of rank r touches: it leaves both banks and
\* the read buffer as they are, is handed lanes of the bank of the epoch, and
\* appends to the write buffer.
AdvanceFootprint(r, i) ==
    /\ event_lanes_' = event_lanes_
    /\ handed'[r][i] = subrange_view(event_lanes_[r][bank(epoch_[r].id)],
                                     group_queue_range(decomp, r, i))
    /\ \A q \in Ranks :
          /\ local_spikes_'[q].index = local_spikes_[q].index
          /\ previous_spikes(local_spikes_'[q]) = previous_spikes(local_spikes_[q])
          /\ IsPrefix(current_spikes(local_spikes_[q]), current_spikes(local_spikes_'[q]))

\* C32: while the two tasks of an epoch run, the advance only reads lanes of
\* bank (epoch id mod 2) and only appends to the spike write buffer, the
\* exchange writes only lanes of bank ((epoch id + 1) mod 2) and only reads
\* the spike read buffer, and no lane is written by two merges.
C32_TasksTouchDisjointData ==
    [][/\ ExchangeTask => ExchangeFootprint
       /\ \A r \in Ranks : \A i \in AllGroupsOf(r) : AdvanceGroup(r, i) => AdvanceFootprint(r, i)]_vars

\* The exchange task of an epoch has completed between the advances of two
\* groups of a rank: it read spikes and wrote events into the next bank, and
\* the advances read events of the current bank and emitted spikes.
C32_Witness ==
    /\ pc = "tasks"
    /\ exchanged
    /\ advanced[0] # {} /\ advanced[0] # AllGroupsOf(0)
    /\ previous_spikes(local_spikes_[0]) # <<>>
    /\ current_spikes(local_spikes_[0]) # <<>>
    /\ Concat(event_lanes_[0][bank(epoch_[0].id)]) # <<>>
    /\ Concat(event_lanes_[0][bank(epoch_[0].id + 1)]) # <<>>

\* The events of a lane that are not due before time t.
NotDueBefore(lane, t) == SelectSeq(lane, LAMBDA e : e.time >= t)

\* C33: merge_events(events, lane) in an epoch leaves in the lane of the next
\* bank, as a multiset, the new events and the events of the lane of the
\* current bank whose time is at or after the end of the epoch, and nothing
\* else: the events of the current lane before the end of the epoch are
\* dropped, what the next lane held is overwritten, and the current lane is
\* left as it is.
C33_MergeKeepsUndeliveredEvents ==
    (Called({"model::merge_events"}) /\ ~result.again) =>
        /\ BagOf(object.lf) = BagOf(call.events) (+) BagOf(NotDueBefore(call.lc, call.t_end))
        /\ object.lc = call.lc

\* A new event was merged into a lane of the next bank that held an event of
\* the epoch before, from a lane of the current bank that has an event before
\* the end of the epoch, one at it and one after it: the lane of the next
\* bank holds the new event and the two that were not due.
C33_Witness ==
    /\ Called({"model::merge_events"})
    /\ ~result.again
    /\ result.stale # <<>>
    /\ Len(call.events) = 1
    /\ \E i, j, k \in 1..Len(call.lc) :
          /\ call.lc[i].time < call.t_end
          /\ call.lc[j].time = call.t_end
          /\ call.lc[k].time > call.t_end
    /\ Len(object.lf) = 3
    /\ result.stale[1] \notin Range(object.lf)

\* ------------------------------------- make_event_queues called on its own
\* The connections of a table whose source is on the first rank: two from
\* the same source to different groups, one from another source.
QueueConnPool ==
    { [source |-> <<0, 0>>, destination |-> <<2, 0>>, weight |-> 2, delay |-> 2, group_index |-> 1],
      [source |-> <<0, 0>>, destination |-> <<3, 0>>, weight |-> 2, delay |-> 3, group_index |-> 2],
      [source |-> <<1, 0>>, destination |-> <<2, 0>>, weight |-> 4, delay |-> 2, group_index |-> 1] }

\* The spikes of the first rank: two of one source, one of a source that has
\* one connection and one of a source that has none.
QueueSpikePool ==
    { [source |-> <<0, 0>>, time |-> 0], [source |-> <<0, 0>>, time |-> 1],
      [source |-> <<1, 0>>, time |-> 0], [source |-> <<2, 0>>, time |-> 1] }

\* Sequences of up to n elements of pool in ascending order of source.
SourceSorted(pool, n) ==
    UNION { { l \in [1..k -> pool] :
                \A i \in 1..(k - 1) : ~MemberLess(l[i + 1].source, l[i].source) } : k \in 0..n }

\* The connections and spikes whose source is on the second rank.
SecondRankConns ==
    { <<>>,
      <<[source |-> <<4, 0>>, destination |-> <<3, 0>>, weight |-> 2, delay |-> 2, group_index |-> 2]>> }

SecondRankSpikes ==
    { <<>>, <<[source |-> <<4, 0>>, time |-> 0]>>,
      <<[source |-> <<4, 0>>, time |-> 1], [source |-> <<4, 0>>, time |-> 0]>> }

QueueInit ==
    /\ DriverUnused
    /\ object = NoObject
    /\ result = NoCall
    /\ \E cons \in SourceSorted(QueueConnPool, MaxQueueConns) :
       \E spks \in SourceSorted(QueueSpikePool, MaxQueueSpikes) :
       \E nd \in 1..2 : \E cons2 \in SecondRankConns : \E spks2 \in SecondRankSpikes :
          /\ nd = 1 => cons2 = <<>> /\ spks2 = <<>>
          /\ call = [fn  |-> "communicator::make_event_queues",
                     com |-> [connections     |-> cons \o cons2,
                              connection_part |-> IF nd = 1 THEN <<0, Len(cons)>>
                                                  ELSE <<0, Len(cons), Len(cons) + Len(cons2)>>],
                     global_spikes |-> [values    |-> spks \o spks2,
                                        partition |-> IF nd = 1 THEN <<0, Len(spks)>>
                                                      ELSE <<0, Len(spks), Len(spks) + Len(spks2)>>],
                     num_local_groups |-> 2,
                     num_domains      |-> nd]

MakeEventQueues ==
    /\ Calling("communicator::make_event_queues")
    /\ result' = [queues |-> make_event_queues(call.com, call.global_spikes,
                                               call.num_local_groups, call.num_domains)]
    /\ UNCHANGED <<setup, driver, locals, outputs, history, call, object>>

QueueNext == MakeEventQueues

QueueSpec == QueueInit /\ [][QueueNext]_vars

\* The connections resp. spikes of the call whose source is on rank dom
\* (counted from 1).
ConsOf(dom) ==
    SubSeq(call.com.connections, call.com.connection_part[dom] + 1, call.com.connection_part[dom + 1])

SpikesOf(dom) ==
    SubSeq(call.global_spikes.values, call.global_spikes.partition[dom] + 1,
           call.global_spikes.partition[dom + 1])

\* The pairs of a connection of group g and a spike of the same source and
\* the same rank, and the multiset of the events they make.
Pairs(g) ==
    { p \in (1..call.num_domains) \X (1..Len(call.com.connections)) \X (1..Len(call.global_spikes.values)) :
        /\ p[2] <= Len(ConsOf(p[1]))
        /\ p[3] <= Len(SpikesOf(p[1]))
        /\ ConsOf(p[1])[p[2]].group_index = g
        /\ ConsOf(p[1])[p[2]].source = SpikesOf(p[1])[p[3]].source }

EventOf(p) ==
    LET c == ConsOf(p[1])[p[2]]
        s == SpikesOf(p[1])[p[3]]
    IN  [target |-> c.destination, time |-> s.time + c.delay, weight |-> c.weight]

EventsOfPairs(g) ==
    [e \in {EventOf(p) : p \in Pairs(g)} |-> Cardinality({p \in Pairs(g) : EventOf(p) = e})]

NoQueues == [g \in 1..call.num_local_groups |-> <<>>]

\* C34: make_event_queues returns one queue per local group; the queue of a
\* group holds, as a multiset, one event (destination, spike time + delay,
\* weight) for every pair of a connection of the group and a spike of the
\* same source in the slice of the rank of the connection's partition, and
\* nothing else; walking the connections and walking the spikes of a rank
\* give the same multisets.
C34_OneEventPerSpikeAndConnection ==
    Called({"communicator::make_event_queues"}) =>
        /\ Len(result.queues) = call.num_local_groups
        /\ \A g \in 1..call.num_local_groups :
              /\ BagOf(result.queues[g]) = EventsOfPairs(g)
              /\ \A dom \in 1..call.num_domains :
                    BagOf(walk_connections(NoQueues, ConsOf(dom), SpikesOf(dom), 1, 1)[g])
                        = BagOf(walk_spikes(NoQueues, ConsOf(dom), SpikesOf(dom), 1, 1)[g])

\* On two ranks: the first rank's slice has two spikes of one source that has
\* two connections, so the spikes are walked there; the second rank's slice
\* has more spikes than connections, so the connections are walked there.
C34_Witness ==
    /\ Called({"communicator::make_event_queues"})
    /\ call.num_domains = 2
    /\ Len(ConsOf(1)) = 2 /\ Len(SpikesOf(1)) = 2
    /\ ConsOf(1)[1].source = ConsOf(1)[2].source
    /\ ConsOf(1)[1] # ConsOf(1)[2]
    /\ SpikesOf(1)[1].source = ConsOf(1)[1].source
    /\ SpikesOf(1)[2].source = ConsOf(1)[1].source
    /\ Len(ConsOf(2)) = 1 /\ Len(SpikesOf(2)) = 2
    /\ Len(result.queues[1]) = 2 /\ Len(result.queues[2]) = 4

\* ------------------------------------------------- run() after run()
\* C35: over run() calls without a reset() between them every emitted spike
\* is gathered by exactly one exchange: the spikes the exchanges of a run()
\* gather are spikes emitted in that run(), each once, and when the run()
\* has returned they are all the spikes emitted in it.
C35_SpikesGatheredOnce ==
    ~clean =>
        /\ run_gathered \sqsubseteq run_emitted
        /\ pc = "idle" => run_gathered = run_emitted

\* C36: over run() calls without a reset() between them, the bank of lanes
\* the advance of the first epoch of a run() reads is the bank the last
\* exchange of the run() before wrote, whatever the number of epochs of that
\* run(), so that no event merged into a lane for a time at or after the time
\* reached is lost.
C36_NextRunReadsLastWrittenBank ==
    (pc = "tasks" /\ EpochNo = 1 /\ written.before # <<>>) =>
        \A r \in Ranks : \A i \in advanced[r] :
            handed[r][i] = subrange_view(written.before[1][r], group_queue_range(decomp, r, i))

\* Both tasks of every epoch begun so far in this run() are complete: there
\* was one exchange per epoch, and every group has been advanced to t_.
EpochsOver ==
    /\ Len(written.run) = EpochNo
    /\ \A r \in Ranks : \A i \in AllGroupsOf(r) : group_t[r][i] = t_[r]

\* The spike buffers are swapped, t_ is updated or the epoch moves on.
BetweenEpochs ==
    \E r \in Ranks :
        \/ local_spikes_'[r].index # local_spikes_[r].index
        \/ t_'[r] # t_[r]
        \/ epoch_'[r] # epoch_[r]

\* C37: within run() the swap of the spike buffers, the update of t_ and the
\* advance of the epoch happen only between epochs: while the tasks of an
\* epoch run none of them happens before the exchange task and every
\* per-group advance of the epoch are complete, and the tasks of the next
\* epoch are started, and the buffers swapped for it, only then.
C37_JoinBetweenEpochs ==
    [][/\ (pc = "tasks" /\ BetweenEpochs) =>
              (exchanged /\ \A r \in Ranks : advanced[r] = AllGroupsOf(r))
       /\ (pc # "tasks" /\ pc' = "tasks") =>
              (EpochsOver /\ exchanged' = FALSE /\ \A r \in Ranks : advanced'[r] = {})
       /\ (pc # "idle" /\ pc' = "idle") => EpochsOver]_vars

\* The tasks of the second epoch of a run() on a rank with two groups have
\* been started, after a first epoch in which spikes were emitted, and one
\* of the two advances is complete, the exchange task is not.
C37_Witness ==
    /\ pc = "tasks"
    /\ EpochNo = 2
    /\ num_groups(0) >= 2
    /\ previous_spikes(local_spikes_[0]) # <<>>
    /\ Cardinality(advanced[0]) = 1
    /\ ~exchanged

\* -------------------------------------------------- the connection table
\* The connections of the recipes the communicator is constructed from:
\* every cell has connections from both other cells.
TableConnPool ==
    { [source |-> <<0, 0>>, dest |-> <<1, 0>>, weight |-> 2, delay |-> 2],
      [source |-> <<0, 0>>, dest |-> <<2, 0>>, weight |-> 2, delay |-> 2],
      [source |-> <<1, 0>>, dest |-> <<0, 0>>, weight |-> 2, delay |-> 2],
      [source |-> <<1, 0>>, dest |-> <<2, 1>>, weight |-> 2, delay |-> 4],
      [source |-> <<2, 0>>, dest |-> <<0, 1>>, weight |-> 4, delay |-> 2],
      [source |-> <<2, 0>>, dest |-> <<1, 0>>, weight |-> 2, delay |-> 2] }

\* The recipes: up to MaxTableConns connections, listed in any order, a
\* connection possibly more than once.
TableRecipes ==
    UNION { { [conns |-> cs, stim |-> {}] : cs \in [1..n -> TableConnPool] } : n \in 0..MaxTableConns }

TableInit ==
    /\ DriverUnused
    /\ object = NoObject
    /\ result = NoCall
    /\ \E rec \in TableRecipes : \E dec \in Decomps :
          call = [fn |-> "communicator::communicator", rec |-> rec, dec |-> dec]

\* communicator::communicator on every rank.
ConstructCommunicator ==
    /\ Calling("communicator::communicator")
    /\ result' = [comm |-> [r \in RanksOf(call.dec) |-> make_connections(call.rec, call.dec, r)]]
    /\ UNCHANGED <<setup, driver, locals, outputs, history, call, object>>

TableNext == ConstructCommunicator

TableSpec == TableInit /\ [][TableNext]_vars

\* A connection of the table as the recipe lists it.
AsListed(c) == [source |-> c.source, dest |-> c.destination, weight |-> c.weight, delay |-> c.delay]

\* The connections of the recipe that end on a cell of rank r.
IncomingOf(r) ==
    SelectSeq(call.rec.conns, LAMBDA c : c.dest[1] \in Range(local_gids(call.dec, r)))

\* C38: after construction the connection table of a rank holds every
\* incoming connection of every local cell exactly once, each tagged with the
\* index of the group of its destination cell; the connections whose source
\* is on rank d lie in the range [connection_part[d], connection_part[d+1]) of
\* the table, and each such range is sorted by source.
C38_ConnectionTablePartitioned ==
    Called({"communicator::communicator"}) =>
        \A r \in RanksOf(call.dec) :
            LET cons == result.comm[r].connections
                part == result.comm[r].connection_part
            IN  /\ BagOf([k \in 1..Len(cons) |-> AsListed(cons[k])]) = BagOf(IncomingOf(r))
                /\ \A k \in 1..Len(cons) :
                      cons[k].destination[1] \in Range(call.dec.groups[r][cons[k].group_index])
                /\ Len(part) = call.dec.num_domains + 1
                /\ part[1] = 0
                /\ part[Len(part)] = Len(cons)
                /\ \A d \in RanksOf(call.dec) :
                      /\ part[d + 1] <= part[d + 2]
                      /\ \A k \in (part[d + 1] + 1)..part[d + 2] :
                            /\ cons[k].source[1] \in Range(local_gids(call.dec, d))
                            /\ k < part[d + 2] => ~MemberLess(cons[k + 1].source, cons[k].source)

\* On two ranks, the table of the first rank has two connections from its
\* own cells, met in descending order of source when the local cells are
\* walked, and one from a cell of the second rank.
C38_Witness ==
    /\ Called({"communicator::communicator"})
    /\ call.dec.num_domains = 2
    /\ result.comm[0].connection_part = <<0, 2, 3>>
    /\ LET own == SelectSeq(local_connections(call.rec, call.dec, 0),
                            LAMBDA c : c.source[1] \in Range(local_gids(call.dec, 0)))
       IN  MemberLess(own[2].source, own[1].source)
    /\ MemberLess(result.comm[0].connections[1].source, result.comm[0].connections[2].source)

\* --------------------------------- partition_load_balance, rank by rank
\* The object is the position of every rank in partition_load_balance:
\* "called", "gathering" (in gather_gids), "thrown" or "returned".
RanksInit ==
    /\ DriverUnused
    /\ result = NoCall
    /\ \E n \in 0..MaxCells :
          \E k \in [0..(n - 1) -> Kinds] :
             \E g \in {x \in SUBSET Junctions(n) : Cardinality(x) <= MaxJunctions} :
                \E nd \in 1..MaxDomains :
                   /\ call = BalanceCall("partition_load_balance", n, k, g, 1,
                                         [gpu_avail |-> FALSE,
                                          map_order |-> <<"cable1d_neuron", "lif_neuron">>], nd)
                   /\ object = [r \in 0..(nd - 1) |-> "called"]

\* Rank r runs partition_load_balance up to the gather of the local gids: it
\* throws when a component it owns has cells of different kinds, and calls
\* gather_gids otherwise.
BalanceLocally(r) ==
    /\ object[r] = "called"
    /\ object' = [object EXCEPT ![r] =
          IF local_load_balance(call.rec, call.hint, call.gpu_avail, call.map_order,
                                call.num_domains, r).error # ""
          THEN "thrown" ELSE "gathering"]
    /\ UNCHANGED <<setup, driver, locals, outputs, history, call, result>>

\* gather_gids on rank r: MPI_Allgather and MPI_Allgatherv return on a rank
\* when every rank of the communicator has made the call.
GatherGidsReturns(r) ==
    /\ object[r] = "gathering"
    /\ \A q \in DOMAIN object : object[q] \in {"gathering", "returned"}
    /\ object' = [object EXCEPT ![r] = "returned"]
    /\ UNCHANGED <<setup, driver, locals, outputs, history, call, result>>

RanksNext == \E r \in DOMAIN object : BalanceLocally(r) \/ GatherGidsReturns(r)

\* Some rank can make a step.
RankStep ==
    /\ \/ \E r \in DOMAIN object : object[r] = "called"
       \/ /\ \A q \in DOMAIN object : object[q] \in {"gathering", "returned"}
          /\ \E r \in DOMAIN object : object[r] = "gathering"
    /\ object' \in [DOMAIN object -> {"called", "gathering", "thrown", "returned"}]

\* The ranks are scheduled: a rank that can make a step makes one.
RanksSpec == RanksInit /\ [][RanksNext]_vars /\ WF_object(RankStep)

\* C39: partition_load_balance comes to an end on every rank, by a return or
\* by an exception, also when it throws on a rank that owns a gap-junction
\* component with cells of different kinds: no rank stays in the gather of
\* the local gids for ever.
C39_ConstructionEndsOnEveryRank ==
    <>(\A r \in DOMAIN object : object[r] \in {"thrown", "returned"})

\* ---------------------------------------------------------------------
\* The group descriptions of a decomposition.

\* The group size the hint configures for a group description: the GPU
\* group size for a group on the GPU backend, the CPU group size otherwise.
GroupSizeHint(grp) ==
    IF grp.backend = "gpu" THEN call.hint.gpu_group_size ELSE call.hint.cpu_group_size

\* The group descriptions of all ranks that returned a decomposition, each
\* named by its rank and its index.
GroupNames ==
    {n \in BalanceRanks \X (1..MaxCells) :
        result[n[1]].returned /\ n[2] <= Len(result[n[1]].groups)}

GidsOfGroup(n) == Range(result[n[1]].groups[n[2]].gids)

\* C40: every group description partition_load_balance produces is
\* non-empty, the cells of one gap-junction component are never split over
\* two group descriptions, and a group description holds more cells than
\* the group size the hint configures only if its cells are exactly one
\* gap-junction component.
C40_GroupsWholeComponents ==
    Balanced =>
        \A n \in GroupNames :
            LET grp == result[n[1]].groups[n[2]]
            IN  /\ grp.gids # <<>>
                /\ \A a \in GidsOfGroup(n) : \A b \in Component(call.rec, {a}) :
                      \A o \in GroupNames : b \in GidsOfGroup(o) => o = n
                /\ Len(grp.gids) > GroupSizeHint(grp) =>
                      \E a \in GidsOfGroup(n) :
                         /\ GidsOfGroup(n) = Component(call.rec, {a})
                         /\ Len(grp.gids) = Cardinality(GidsOfGroup(n))

\* With a CPU group size hint of 1, one rank grouped four cells of one kind
\* where cells 0, 1 and 2 are one gap-junction component: cell 3 is a group
\* of its own, and the component is one group of three cells, more than the
\* hint.
C40_Witness ==
    /\ Balanced
    /\ call.num_domains = 1
    /\ call.rec.num_cells = 4
    /\ call.rec.gj = {{0, 1}, {1, 2}}
    /\ \A c \in BalanceCells : call.rec.kind[c] = "lif_neuron"
    /\ call.hint.cpu_group_size = 1
    /\ result[0].returned
    /\ Len(result[0].groups) = 2
    /\ result[0].groups[1].gids = <<3>>
    /\ result[0].groups[2].gids = <<0, 1, 2>>
    /\ Len(result[0].groups[2].gids) > GroupSizeHint(result[0].groups[2])

====
